---- MODULE Spec2Model ----
(***************************************************************************)
(* Model of the 301/501 match scoring component (GameContent) of           *)
(* talli-darts.  The component keeps its state in React state cells        *)
(* (game, lastAction, pendingDoubleAttempts); every handler runs against   *)
(* the values captured by the render it was created in (the closure, here  *)
(* the parameter r) and queues functional updates that are applied to the  *)
(* running state (here the parameter c).  A handler invoked by an event    *)
(* has r = c = the current state; a handler called from inside another     *)
(* handler keeps the caller's r and sees the caller's queued updates in c. *)
(*                                                                         *)
(* Every handler can be invoked in every state: its guard is what its own  *)
(* code checks, not which controls are drawn.  Opening a visit for editing *)
(* and saving the new value is one step.  The stored players of a ranked   *)
(* match are found by getPlayer, and awaited calls return.                 *)
(*                                                                         *)
(* The tournament engine (tournament-data.ts) is modelled from             *)
(* createTournament to the last recorded result.  Results are recorded for *)
(* ready matches, the matches the tournament view offers to play.  In      *)
(* SpecTournament an update fetches and writes in one step; in             *)
(* SpecConcurrent the fetch and the write of an update are separate steps  *)
(* and several updates run side by side.                                   *)
(***************************************************************************)
EXTENDS Integers, Sequences, FiniteSets, TLC

\* game, lastAction and pendingDoubleAttempts are the state cells of the
\* component (part_002 lines 506-531).  saveMatchCalls counts the
\* invocations of saveMatch (lines 773, 831, 874) and saveTasks holds the
\* running asynchronous saves, each named by the call it awaits.  used is
\* the event counter that bounds the exploration.
VARIABLES game, lastAction, pendingDoubleAttempts, saveMatchCalls, saveTasks,
          used

\* tournament is the stored tournament row (tournament-data.ts lines 527-553),
\* Null until createTournament has stored it.  creation is the running
\* createTournament call: its setup, the matches generated so far and the
\* changed flag of the loop of processWalkovers (lines 239-242) with the
\* number of passes the loop has made.  recorded counts the results recorded
\* in the tournament.  calls holds the calls of updateBracketMatch and
\* updateGroupMatch that have fetched the tournament (lines 700, 813), each
\* with the row it fetched, and whether it has written back (lines 801, 956).
VARIABLES tournament, creation, recorded, calls

matchVars == <<game, lastAction, pendingDoubleAttempts, saveMatchCalls,
               saveTasks, used>>
tournamentVars == <<tournament, creation, recorded, calls>>
vars == <<game, lastAction, pendingDoubleAttempts, saveMatchCalls, saveTasks,
          used, tournament, creation, recorded, calls>>

\* ---------------------------------------------------------------- bounds
\* Events explored in one match that record a visit, touch the dart pad,
\* undo or edit (used counts them), and the longest match format.
MaxEvents == 5
MaxLegsToWin == 2
\* Events explored after an opening has been played (InitLateLeg).
MaxLateEvents == 3
\* Results recorded in one tournament.
MaxResults == 9
\* Calls of updateBracketMatch and updateGroupMatch issued by callers that
\* run side by side.
MaxCalls == 3

\* ------------------------------------------------------- input domains
PlayerCounts == {2}
Modes == {"301"}
Scores == {81, 121, 180}
QuickScores == {26, 29, 180} \cap Scores
EditValues == {120}
DartNumbers == {20}
DartButtons == DartNumbers \cup {50}
Multipliers == {"single", "double", "treble"}
DartsAtDouble == {1, 2, 3}

Null == <<>>
Some(x) == <<x>>
NoScore == -1

\* ------------------------------------------------------------- helpers
isOnDouble(remaining) ==
    \/ remaining = 50
    \/ (remaining >= 2 /\ remaining <= 40 /\ remaining % 2 = 0)

\* A faulty isBust that forgets the unfinishable remainder of 1.
isBustIgnoringOne(newRemaining) == newRemaining < 0

isBust(newRemaining) == newRemaining < 0 \/ newRemaining = 1

RECURSIVE SumSeq(_)
SumSeq(s) == IF s = <<>> THEN 0 ELSE Head(s) + SumSeq(Tail(s))

Bool2Int(b) == IF b THEN 1 ELSE 0

startingScoreOf(mode) == IF mode = "301" THEN 301 ELSE 501

NewGamePlayer(startingScore) ==
    [remaining |-> startingScore, legsWon |-> 0, throws |-> <<>>,
     lastScore |-> NoScore, oneEighties |-> 0, haminas |-> 0,
     sixtyPlus |-> 0, eightyPlus |-> 0, hundredPlus |-> 0,
     doubleAttempts |-> 0, doubleHits |-> 0,
     legFirst9Total |-> 0, legFirst9Visits |-> 0, allFirst9Totals |-> <<>>]

NewGame(n, mode, legsToWin, isRanked) ==
    [players |-> [i \in 0..(n - 1) |-> NewGamePlayer(startingScoreOf(mode))],
     currentPlayerIndex |-> 0,
     startingScore |-> startingScoreOf(mode),
     legsToWin |-> legsToWin,
     gameMode |-> mode,
     isRanked |-> isRanked,
     gameOver |-> FALSE,
     matchWinner |-> Null,
     matchSaved |-> FALSE,
     pendingLegWin |-> Null,
     currentLeg |-> 1,
     inputMode |-> "round",
     currentDarts |-> <<>>,
     selectedMultiplier |-> "single"]

playerCount(g) == Cardinality(DOMAIN g.players)

\* The component state as one value, so that handlers can be composed.
Cur == [game |-> game, lastAction |-> lastAction,
        pendingDoubleAttempts |-> pendingDoubleAttempts,
        saveMatchCalls |-> saveMatchCalls, saveTasks |-> saveTasks]

\* ------------------------------------------------------ submitScore
\* The player record written by a scoring (non-bust) visit.
scoredPlayer(currentP, scoreValue, newRemaining, doubleAttempts, doubleHits) ==
    LET isFirst9 == currentP.legFirst9Visits < 3
    IN [currentP EXCEPT
          !.remaining = newRemaining,
          !.throws = Append(currentP.throws, scoreValue),
          !.lastScore = scoreValue,
          !.oneEighties = @ + Bool2Int(scoreValue = 180),
          !.haminas = @ + Bool2Int(scoreValue = 26),
          !.sixtyPlus = @ + Bool2Int(scoreValue >= 60),
          !.eightyPlus = @ + Bool2Int(scoreValue >= 80),
          !.hundredPlus = @ + Bool2Int(scoreValue >= 100),
          !.doubleAttempts = @ + doubleAttempts,
          !.doubleHits = @ + doubleHits,
          !.legFirst9Total = IF isFirst9 THEN @ + scoreValue ELSE @,
          !.legFirst9Visits = IF isFirst9 THEN @ + 1 ELSE @]

nextPlayerIndex(g) == (g.currentPlayerIndex + 1) % playerCount(g)

\* The bust branch of submitScore: no visit is appended.
submitBust(prev, doubleAttempts) ==
    LET currentP == prev.players[prev.currentPlayerIndex]
    IN [prev EXCEPT
          !.players[prev.currentPlayerIndex] =
              [currentP EXCEPT !.lastScore = NoScore,
                               !.doubleAttempts = @ + doubleAttempts],
          !.currentPlayerIndex = nextPlayerIndex(prev)]

\* A faulty checkout branch that names the next player as the leg winner.
submitCheckoutNamingNext(prev, scoreValue, doubleAttempts, doubleHits) ==
    LET currentP == prev.players[prev.currentPlayerIndex]
    IN [prev EXCEPT
          !.players[prev.currentPlayerIndex] =
              scoredPlayer(currentP, scoreValue, 0, doubleAttempts, doubleHits),
          !.pendingLegWin = Some([winnerIndex |-> nextPlayerIndex(prev)])]

\* A faulty checkout branch that already counts the leg for the player.
submitCheckoutCountingLeg(prev, scoreValue, doubleAttempts, doubleHits) ==
    LET currentP == prev.players[prev.currentPlayerIndex]
    IN [prev EXCEPT
          !.players[prev.currentPlayerIndex] =
              [scoredPlayer(currentP, scoreValue, 0, doubleAttempts, doubleHits)
                 EXCEPT !.legsWon = @ + 1],
          !.pendingLegWin = Some([winnerIndex |-> prev.currentPlayerIndex])]

\* The checkout branch of submitScore: the leg win is proposed.
submitCheckout(prev, scoreValue, doubleAttempts, doubleHits) ==
    LET currentP == prev.players[prev.currentPlayerIndex]
    IN [prev EXCEPT
          !.players[prev.currentPlayerIndex] =
              scoredPlayer(currentP, scoreValue, 0, doubleAttempts, doubleHits),
          !.pendingLegWin = Some([winnerIndex |-> prev.currentPlayerIndex])]

\* The continue branch of submitScore.
submitContinue(prev, scoreValue, newRemaining, doubleAttempts, doubleHits) ==
    LET currentP == prev.players[prev.currentPlayerIndex]
    IN [prev EXCEPT
          !.players[prev.currentPlayerIndex] =
              scoredPlayer(currentP, scoreValue, newRemaining,
                           doubleAttempts, doubleHits),
          !.currentPlayerIndex = nextPlayerIndex(prev)]

\* given = FALSE models doubleAttempts === undefined (then both counts are 0).
submitScore(r, c, scoreValue, given, doubleAttempts, doubleHits) ==
    IF r.game.gameOver \/ r.game.pendingLegWin # Null
          \/ r.pendingDoubleAttempts # Null
    THEN c
    ELSE
    LET currentPlayer == r.game.players[r.game.currentPlayerIndex]
        remaining == currentPlayer.remaining
        newRemaining == remaining - scoreValue
        askDarts == ~given /\ isOnDouble(remaining) /\ r.game.inputMode = "round"
    IN IF askDarts
       THEN [c EXCEPT !.pendingDoubleAttempts =
                Some([playerIndex |-> r.game.currentPlayerIndex,
                      wasCheckout |-> (newRemaining = 0),
                      score |-> scoreValue,
                      previousRemaining |-> remaining])]
       ELSE IF isBust(newRemaining)
       THEN [c EXCEPT !.game = submitBust(c.game, doubleAttempts)]
       ELSE LET c1 == [c EXCEPT !.lastAction =
                         Some([playerIndex |-> r.game.currentPlayerIndex,
                               score |-> scoreValue,
                               remaining |-> remaining,
                               lastScore |-> currentPlayer.lastScore])]
            IN IF newRemaining = 0
               THEN [c1 EXCEPT !.game = submitCheckout(c1.game, scoreValue,
                                            doubleAttempts, doubleHits)]
               ELSE [c1 EXCEPT !.game = submitContinue(c1.game, scoreValue,
                                            newRemaining, doubleAttempts,
                                            doubleHits)]

\* -------------------------------------------------------- handleBust
\* The player record written by a declared bust: a zero visit is appended.
bustedPlayer(currentP, doubleAttempts) ==
    LET isFirst9 == currentP.legFirst9Visits < 3
    IN [currentP EXCEPT
          !.throws = Append(currentP.throws, 0),
          !.lastScore = 0,
          !.doubleAttempts = @ + doubleAttempts,
          !.legFirst9Visits = IF isFirst9 THEN @ + 1 ELSE @]

recordBust(r, c, doubleAttempts) ==
    LET currentPlayer == r.game.players[r.game.currentPlayerIndex]
        prev == c.game
    IN [c EXCEPT
          !.lastAction = Some([playerIndex |-> r.game.currentPlayerIndex,
                               score |-> 0,
                               remaining |-> currentPlayer.remaining,
                               lastScore |-> currentPlayer.lastScore]),
          !.game = [prev EXCEPT
                      !.players[prev.currentPlayerIndex] =
                          bustedPlayer(prev.players[prev.currentPlayerIndex],
                                       doubleAttempts),
                      !.currentPlayerIndex = nextPlayerIndex(prev)]]

handleBust(r, c, given, doubleAttempts) ==
    IF r.game.gameOver \/ r.game.pendingLegWin # Null
          \/ r.pendingDoubleAttempts # Null
    THEN c
    ELSE
    LET currentPlayer == r.game.players[r.game.currentPlayerIndex]
    IN IF ~given /\ isOnDouble(currentPlayer.remaining)
            /\ r.game.inputMode = "round"
       THEN [c EXCEPT !.pendingDoubleAttempts =
                Some([playerIndex |-> r.game.currentPlayerIndex,
                      wasCheckout |-> FALSE,
                      score |-> -1,
                      previousRemaining |-> currentPlayer.remaining])]
       ELSE recordBust(r, c, doubleAttempts)

\* ---------------------------------------------- confirmDoubleAttempts
confirmDoubleAttempts(r, c, dartsThrown) ==
    IF r.pendingDoubleAttempts = Null THEN c
    ELSE
    LET pda == r.pendingDoubleAttempts[1]
        attempts == dartsThrown
        hits == IF pda.wasCheckout THEN 1 ELSE 0
        c1 == [c EXCEPT !.pendingDoubleAttempts = Null]
    IN IF pda.score = -1
       THEN recordBust(r, c1, attempts)
       ELSE submitScore(r, c1, pda.score, TRUE, attempts, hits)

\* ------------------------------------- saveMatchResult / savePracticeMatch
\* An asynchronous save is a task whose value is the call it is awaiting.
\* saveMatchCalls counts the invocations of saveMatch.
saveMatchResult(r, c) ==
    IF r.game.matchSaved \/ ~r.game.isRanked \/ playerCount(r.game) # 2
    THEN c
    ELSE [c EXCEPT !.saveTasks = Append(@, "updateWinner")]

savePracticeMatch(r, c) ==
    IF r.game.matchSaved
    THEN c
    ELSE [c EXCEPT !.saveMatchCalls = @ + 1,
                   !.saveTasks = Append(@, "saveMatch")]

RemoveAt(s, i) == SubSeq(s, 1, i - 1) \o SubSeq(s, i + 1, Len(s))

\* One awaited call of save task i returns and the task runs to its next await.
resumeSave(c, i) ==
    IF c.saveTasks[i] = "updateWinner"
    THEN [c EXCEPT !.saveTasks[i] = "updateLoser"]
    ELSE IF c.saveTasks[i] = "updateLoser"
    THEN [c EXCEPT !.saveTasks[i] = "saveMatch", !.saveMatchCalls = @ + 1]
    ELSE [c EXCEPT !.saveTasks = RemoveAt(@, i),
                   !.game = [c.game EXCEPT !.matchSaved = TRUE]]

\* ------------------------------------------------------ confirmLegWin
\* A faulty rotation that is one leg ahead.
nextStarterOneAhead(nextLeg, n) == nextLeg % n

nextStarter(nextLeg, n) == (nextLeg - 1) % n

\* A faulty match end that leaves the leg win pending.
matchWonKeepingPending(prev, winnerIndex, newLegsWon) ==
    [prev EXCEPT
       !.players = [i \in DOMAIN prev.players |->
           [prev.players[i] EXCEPT
              !.remaining = IF i = winnerIndex THEN 0 ELSE @,
              !.legsWon = IF i = winnerIndex THEN newLegsWon ELSE @,
              !.allFirst9Totals = Append(@, prev.players[i].legFirst9Total)]],
       !.gameOver = TRUE,
       !.matchWinner = Some(winnerIndex)]

\* The game written when the confirmed leg wins the match.
matchWon(prev, winnerIndex, newLegsWon) ==
    [prev EXCEPT
       !.players = [i \in DOMAIN prev.players |->
           [prev.players[i] EXCEPT
              !.remaining = IF i = winnerIndex THEN 0 ELSE @,
              !.legsWon = IF i = winnerIndex THEN newLegsWon ELSE @,
              !.allFirst9Totals = Append(@, prev.players[i].legFirst9Total)]],
       !.gameOver = TRUE,
       !.matchWinner = Some(winnerIndex),
       !.pendingLegWin = Null]

\* A faulty next leg that credits the leg to every player.
startNextLegCreditingAll(prev, winnerIndex, newLegsWon, nextLeg, starter) ==
    [prev EXCEPT
       !.players = [i \in DOMAIN prev.players |->
           [prev.players[i] EXCEPT
              !.remaining = prev.startingScore,
              !.throws = <<>>,
              !.lastScore = NoScore,
              !.legsWon = @ + 1,
              !.allFirst9Totals = Append(@, prev.players[i].legFirst9Total),
              !.legFirst9Total = 0,
              !.legFirst9Visits = 0]],
       !.currentPlayerIndex = starter,
       !.pendingLegWin = Null,
       !.currentLeg = nextLeg]

\* The game written when the confirmed leg does not yet win the match.
startNextLeg(prev, winnerIndex, newLegsWon, nextLeg, starter) ==
    [prev EXCEPT
       !.players = [i \in DOMAIN prev.players |->
           [prev.players[i] EXCEPT
              !.remaining = prev.startingScore,
              !.throws = <<>>,
              !.lastScore = NoScore,
              !.legsWon = IF i = winnerIndex THEN newLegsWon ELSE @,
              !.allFirst9Totals = Append(@, prev.players[i].legFirst9Total),
              !.legFirst9Total = 0,
              !.legFirst9Visits = 0]],
       !.currentPlayerIndex = starter,
       !.pendingLegWin = Null,
       !.currentLeg = nextLeg]

confirmLegWin(r, c) ==
    IF r.game.pendingLegWin = Null THEN c
    ELSE
    LET winnerIndex == r.game.pendingLegWin[1].winnerIndex
        newLegsWon == r.game.players[winnerIndex].legsWon + 1
    IN IF newLegsWon >= r.game.legsToWin
       THEN LET c1 == [c EXCEPT !.game = matchWon(c.game, winnerIndex, newLegsWon)]
            IN IF r.game.isRanked /\ playerCount(r.game) = 2
               THEN saveMatchResult(r, c1)
               ELSE savePracticeMatch(r, c1)
       ELSE LET nextLeg == r.game.currentLeg + 1
            IN [c EXCEPT
                  !.game = startNextLeg(c.game, winnerIndex, newLegsWon, nextLeg,
                                        nextStarter(nextLeg, playerCount(r.game))),
                  !.lastAction = Null]

\* --------------------------------------------------------- handleUndo
Last(s) == s[Len(s)]
ButLast(s) == SubSeq(s, 1, Len(s) - 1)

\* The player record written by an undo; lastThrow is undefined (no
\* counter moves) when the player has no visit.
undonePlayer(undoPlayer, la) ==
    LET has == undoPlayer.throws # <<>>
        lastThrow == IF has THEN Last(undoPlayer.throws) ELSE 0
    IN [undoPlayer EXCEPT
          !.remaining = la.remaining,
          !.throws = ButLast(undoPlayer.throws),
          !.lastScore = la.lastScore,
          !.oneEighties = @ - Bool2Int(has /\ lastThrow = 180),
          !.haminas = @ - Bool2Int(has /\ lastThrow = 26),
          !.sixtyPlus = @ - Bool2Int(has /\ lastThrow >= 60),
          !.eightyPlus = @ - Bool2Int(has /\ lastThrow >= 80),
          !.hundredPlus = @ - Bool2Int(has /\ lastThrow >= 100)]

handleUndo(r, c) ==
    IF r.lastAction = Null \/ r.game.pendingLegWin # Null THEN c
    ELSE
    LET la == r.lastAction[1]
        prev == c.game
    IN [c EXCEPT
          !.game = [prev EXCEPT
                      !.players[la.playerIndex] =
                          undonePlayer(prev.players[la.playerIndex], la),
                      !.currentPlayerIndex = la.playerIndex],
          !.lastAction = Null]

\* ------------------------------------------------------- cancelLegWin
cancelLegWin(r, c) ==
    LET c1 == IF r.lastAction # Null THEN handleUndo(r, c) ELSE c
    IN [c1 EXCEPT !.game = [c1.game EXCEPT !.pendingLegWin = Null]]

\* ------------------------------------- openEditThrow + handleSaveEditThrow
CountOf(s, v) == Cardinality({k \in DOMAIN s : s[k] = v})

\* throwIndex is 0-based as in the source.
handleSaveEditThrow(r, c, playerIndex, throwIndex, newValue) ==
    IF newValue < 0 \/ newValue > 180 THEN c
    ELSE
    LET prev == c.game
        player == prev.players[playerIndex]
        newThrows == [player.throws EXCEPT ![throwIndex + 1] = newValue]
        totalThrown == SumSeq(newThrows)
    IN [c EXCEPT !.game = [prev EXCEPT !.players[playerIndex] =
          [player EXCEPT
             !.throws = newThrows,
             !.remaining = r.game.startingScore - totalThrown,
             !.oneEighties = CountOf(newThrows, 180),
             !.haminas = CountOf(newThrows, 26),
             !.lastScore = IF throwIndex = Len(newThrows) - 1
                           THEN newValue ELSE @]]]

\* ------------------------------------------------ dart-by-dart mode
getDartScore(multiplier, value) ==
    CASE multiplier = "single" -> value
      [] multiplier = "double" -> value * 2
      [] multiplier = "treble" -> value * 3
      [] multiplier = "bull" -> 50
      [] multiplier = "outer" -> 25
      [] OTHER -> value

RECURSIVE dartsTotal(_)
dartsTotal(darts) ==
    IF darts = <<>> THEN 0 ELSE Head(darts).score + dartsTotal(Tail(darts))

getCurrentDartsTotal(g) == dartsTotal(g.currentDarts)

resetDarts(g) == [g EXCEPT !.currentDarts = <<>>, !.selectedMultiplier = "single"]

handleModeToggle(r, c, mode) ==
    IF r.game.gameOver \/ r.game.pendingLegWin # Null THEN c
    ELSE [c EXCEPT !.game = [resetDarts(c.game) EXCEPT !.inputMode = mode]]

handleMultiplierSelect(r, c, multiplier) ==
    IF r.game.gameOver \/ r.game.pendingLegWin # Null THEN c
    ELSE [c EXCEPT !.game = [c.game EXCEPT !.selectedMultiplier = multiplier]]

newDartOf(g, value) ==
    IF value = 50 THEN [multiplier |-> "bull", value |-> 50, score |-> 50]
    ELSE IF value = 25 THEN [multiplier |-> "outer", value |-> 25, score |-> 25]
    ELSE [multiplier |-> g.selectedMultiplier, value |-> value,
          score |-> getDartScore(g.selectedMultiplier, value)]

isFinishingDart(dart) == dart.multiplier = "double" \/ dart.multiplier = "bull"

handleDartInput(r, c, value) ==
    IF r.game.gameOver \/ r.game.pendingLegWin # Null THEN c
    ELSE IF Len(r.game.currentDarts) >= 3 THEN c
    ELSE
    LET newDart == newDartOf(r.game, value)
        newDarts == Append(r.game.currentDarts, newDart)
        total == dartsTotal(newDarts)
        newRemaining == r.game.players[r.game.currentPlayerIndex].remaining - total
    IN IF newRemaining < 0 \/ newRemaining = 1 THEN c
       ELSE IF newRemaining = 0 /\ ~isFinishingDart(newDart) THEN c
       ELSE [c EXCEPT !.game = [c.game EXCEPT !.currentDarts = newDarts]]

handleDartMiss(r, c) ==
    IF r.game.gameOver \/ r.game.pendingLegWin # Null THEN c
    ELSE IF Len(r.game.currentDarts) >= 3 THEN c
    ELSE [c EXCEPT !.game = [c.game EXCEPT !.currentDarts =
             Append(@, [multiplier |-> "single", value |-> 0, score |-> 0])]]

handleDartUndo(r, c) ==
    IF r.game.gameOver \/ r.game.pendingLegWin # Null THEN c
    ELSE IF Len(r.game.currentDarts) = 0 THEN c
    ELSE [c EXCEPT !.game = [c.game EXCEPT !.currentDarts = ButLast(@)]]

\* The loop of handleDartSubmit: darts thrown while on a double, and the
\* darts among them that finished the leg.
RECURSIVE countDoubleAttempts(_, _)
countDoubleAttempts(darts, remainingBeforeDart) ==
    IF darts = <<>> THEN 0
    ELSE Bool2Int(isOnDouble(remainingBeforeDart))
         + countDoubleAttempts(Tail(darts), remainingBeforeDart - Head(darts).score)

RECURSIVE countDoubleHits(_, _)
countDoubleHits(darts, remainingBeforeDart) ==
    IF darts = <<>> THEN 0
    ELSE Bool2Int(isOnDouble(remainingBeforeDart)
                  /\ remainingBeforeDart - Head(darts).score = 0)
         + countDoubleHits(Tail(darts), remainingBeforeDart - Head(darts).score)

\* A faulty handleDartSubmit that does not look at the final dart.
handleDartSubmitAnyFinish(r, c) ==
    IF r.game.gameOver \/ r.game.pendingLegWin # Null THEN c
    ELSE IF Len(r.game.currentDarts) = 0 THEN c
    ELSE
    LET currentPlayer == r.game.players[r.game.currentPlayerIndex]
        total == getCurrentDartsTotal(r.game)
        c1 == submitScore(r, c, total, TRUE,
                 countDoubleAttempts(r.game.currentDarts, currentPlayer.remaining),
                 countDoubleHits(r.game.currentDarts, currentPlayer.remaining))
    IN [c1 EXCEPT !.game = resetDarts(c1.game)]

handleDartSubmit(r, c) ==
    IF r.game.gameOver \/ r.game.pendingLegWin # Null THEN c
    ELSE IF Len(r.game.currentDarts) = 0 THEN c
    ELSE
    LET currentPlayer == r.game.players[r.game.currentPlayerIndex]
        total == getCurrentDartsTotal(r.game)
        newRemaining == currentPlayer.remaining - total
    IN IF newRemaining = 0 /\ ~isFinishingDart(Last(r.game.currentDarts)) THEN c
       ELSE LET c1 == submitScore(r, c, total, TRUE,
                        countDoubleAttempts(r.game.currentDarts, currentPlayer.remaining),
                        countDoubleHits(r.game.currentDarts, currentPlayer.remaining))
            IN [c1 EXCEPT !.game = resetDarts(c1.game)]

handleDartBust(r, c) ==
    IF r.game.gameOver \/ r.game.pendingLegWin # Null THEN c
    ELSE
    LET currentPlayer == r.game.players[r.game.currentPlayerIndex]
        doubleAttempts == countDoubleAttempts(r.game.currentDarts, currentPlayer.remaining)
        prev == c.game
        c1 == IF doubleAttempts > 0
              THEN [c EXCEPT !.game = [prev EXCEPT
                      !.players[prev.currentPlayerIndex].doubleAttempts =
                          @ + doubleAttempts]]
              ELSE c
        c2 == handleBust(r, c1, FALSE, 0)
    IN [c2 EXCEPT !.game = resetDarts(c2.game)]

\* ====================================================== tournament engine
\* Model of src/lib/tournament-data.ts.  A player of the setup is a record
\* [id, elo]; a bracket slot is Null or Some([id, seed]) (seed 0 where the
\* code sets none); winnerId is Null or Some(id); a score is Null or
\* Some(<<player1Legs, player2Legs>>).  A match is identified by its index
\* in the bracket (the code's random ids are taken to be distinct).
legsConfig ==
    [groupStage |-> 2, quarterfinal |-> 1, semifinal |-> 2, final |-> 3,
     bronze |-> 1]

\* [...players].sort((a, b) => eloB - eloA): a stable sort, descending.
RECURSIVE insertByElo(_, _)
insertByElo(sorted, player) ==
    IF sorted = <<>> THEN <<player>>
    ELSE IF Head(sorted).elo >= player.elo
         THEN <<Head(sorted)>> \o insertByElo(Tail(sorted), player)
         ELSE <<player>> \o sorted

RECURSIVE sortByElo(_)
sortByElo(players) ==
    IF players = <<>> THEN <<>>
    ELSE insertByElo(sortByElo(ButLast(players)), Last(players))

\* seeds: one entry per bracket slot, the player Null beyond the last player.
seedsOf(sorted, bracketSize) ==
    [i \in 1..bracketSize |->
        IF i <= Len(sorted) THEN Some([id |-> sorted[i].id, seed |-> i])
        ELSE Null]

\* A faulty pairing table: the last two seeds have changed places.
seedingPatternsLastSwapped(bracketSize) ==
    CASE bracketSize = 4 -> << <<1, 3>>, <<2, 4>> >>
      [] bracketSize = 8 -> << <<1, 7>>, <<4, 5>>, <<3, 6>>, <<2, 8>> >>
      [] bracketSize = 16 -> << <<1, 15>>, <<8, 9>>, <<5, 12>>, <<4, 13>>,
                                <<3, 14>>, <<6, 11>>, <<7, 10>>, <<2, 16>> >>

seedingPatterns(bracketSize) ==
    CASE bracketSize = 4 -> << <<1, 4>>, <<2, 3>> >>
      [] bracketSize = 8 -> << <<1, 8>>, <<4, 5>>, <<3, 6>>, <<2, 7>> >>
      [] bracketSize = 16 -> << <<1, 16>>, <<8, 9>>, <<5, 12>>, <<4, 13>>,
                                <<3, 14>>, <<6, 11>>, <<7, 10>>, <<2, 15>> >>

\* Math.log2 of a bracket size.
log2(n) == CASE n = 2 -> 1 [] n = 4 -> 2 [] n = 8 -> 3 [] n = 16 -> 4

pow2(k) == CASE k = 0 -> 1 [] k = 1 -> 2 [] k = 2 -> 4 [] k = 3 -> 8 [] k = 4 -> 16

emptyMatch(round, position, matchType, legsToWin) ==
    [round |-> round, position |-> position, matchType |-> matchType,
     player1 |-> Null, player2 |-> Null, winnerId |-> Null, score |-> Null,
     legsToWin |-> legsToWin, status |-> "pending"]

\* One first-round match (the body of pattern.forEach); index counts from 0.
firstRoundMatch(seeds, matchup, index, totalRounds) ==
    LET seed1 == seeds[matchup[1]]
        seed2 == seeds[matchup[2]]
        legsToWin == IF totalRounds = 2 THEN legsConfig.semifinal
                     ELSE legsConfig.quarterfinal
        isWalkover == seed1 = Null \/ seed2 = Null
        walkoverWinner == IF seed1 # Null THEN seed1 ELSE seed2
    IN [round |-> 1, position |-> index, matchType |-> "regular",
        player1 |-> seed1, player2 |-> seed2,
        winnerId |-> IF isWalkover /\ walkoverWinner # Null
                     THEN Some(walkoverWinner[1].id) ELSE Null,
        score |-> IF isWalkover THEN Some(<<0, 0>>) ELSE Null,
        legsToWin |-> legsToWin,
        status |-> IF isWalkover THEN "walkover"
                   ELSE IF seed1 # Null /\ seed2 # Null THEN "ready"
                   ELSE "pending"]

\* The matches of one later round, empty.
laterRound(bracketSize, round, totalRounds) ==
    LET matchesInRound == bracketSize \div pow2(round)
        legsToWin == IF round = totalRounds THEN legsConfig.final
                     ELSE IF round = totalRounds - 1 THEN legsConfig.semifinal
                     ELSE legsConfig.quarterfinal
    IN [k \in 1..matchesInRound |->
           emptyMatch(round, k - 1, "regular", legsToWin)]

RECURSIVE laterRounds(_, _, _)
laterRounds(bracketSize, round, totalRounds) ==
    IF round > totalRounds THEN <<>>
    ELSE laterRound(bracketSize, round, totalRounds)
         \o laterRounds(bracketSize, round + 1, totalRounds)

\* generateCupBracket up to its last line: the matches handed to
\* processWalkovers.
cupMatches(players, bracketSize, bronzeMatchEnabled) ==
    LET sorted == sortByElo(players)
        seeds == seedsOf(sorted, bracketSize)
        pattern == seedingPatterns(bracketSize)
        totalRounds == log2(bracketSize)
        firstRound == [k \in 1..Len(pattern) |->
                          firstRoundMatch(seeds, pattern[k], k - 1, totalRounds)]
        bronze == IF bronzeMatchEnabled
                  THEN <<emptyMatch(totalRounds, 1, "bronze", legsConfig.bronze)>>
                  ELSE <<>>
    IN firstRound \o laterRounds(bracketSize, 2, totalRounds) \o bronze

\* updated.find(...): the index of the first match that satisfies the test,
\* 0 when there is none.  hits are the indices of the matches that satisfy
\* it.
findMatch(hits) ==
    IF hits = {} THEN 0 ELSE CHOOSE k \in hits : \A j \in hits : k <= j

\* A faulty nextRegular that keeps the position instead of halving it.
nextRegularSamePosition(matches, match) ==
    LET Test(m) == /\ m.round = match.round + 1
                   /\ m.position = match.position
                   /\ m.matchType = "regular"
    IN findMatch({idx \in DOMAIN matches : Test(matches[idx])})

nextRegular(matches, match) ==
    LET Test(m) == /\ m.round = match.round + 1
                   /\ m.position = match.position \div 2
                   /\ m.matchType = "regular"
    IN findMatch({idx \in DOMAIN matches : Test(matches[idx])})

\* The body of the for loop of processWalkovers for the match at index k.
\* scan is [matches, changed].
scanWalkover(scan, k) ==
    LET updated == scan.matches
        match == updated[k]
        isPlayer1 == match.position % 2 = 0
        n == nextRegular(updated, match)
        winner == IF match.player1 # Null /\ Some(match.player1[1].id) = match.winnerId
                  THEN match.player1 ELSE match.player2
    IN IF ~(match.status = "walkover" /\ match.winnerId # Null) THEN scan
       ELSE IF n = 0 \/ winner = Null THEN scan
       ELSE
       LET nextMatch == updated[n]
           placed1 == isPlayer1 /\ nextMatch.player1 = Null
           placed2 == ~isPlayer1 /\ nextMatch.player2 = Null
           next1 == IF placed1 THEN [nextMatch EXCEPT !.player1 = winner]
                    ELSE IF placed2 THEN [nextMatch EXCEPT !.player2 = winner]
                    ELSE nextMatch
           nowReady == /\ next1.player1 # Null /\ next1.player2 # Null
                       /\ next1.status = "pending"
           next2 == IF nowReady THEN [next1 EXCEPT !.status = "ready"] ELSE next1
       IN [matches |-> [updated EXCEPT ![n] = next2],
           changed |-> scan.changed \/ placed1 \/ placed2 \/ nowReady]

\* One execution of the body of while (changed): changed is reset and the
\* for loop visits every match in order.
RECURSIVE scanFrom(_, _)
scanFrom(scan, k) ==
    IF k > Len(scan.matches) THEN scan
    ELSE scanFrom(scanWalkover(scan, k), k + 1)

\* A faulty pass that reports a change whether or not it made one.
walkoverPassRestless(matches) ==
    [scanFrom([matches |-> matches, changed |-> FALSE], 1)
        EXCEPT !.changed = TRUE]

walkoverPass(matches) == scanFrom([matches |-> matches, changed |-> FALSE], 1)

\* ------------------------------------------ generateRoundRobinGroups
\* The group (counted from 0) of the player at sorted index `index`.
\* A faulty draft that deals the players round by round in the same
\* direction.
groupIndexOfStraight(index, groupCount) ==
    index % groupCount

groupIndexOf(index, groupCount) ==
    LET round == index \div groupCount
    IN IF round % 2 = 0 THEN index % groupCount
       ELSE groupCount - 1 - (index % groupCount)

newStanding(player) ==
    [id |-> player.id, played |-> 0, won |-> 0, lost |-> 0, legsFor |-> 0,
     legsAgainst |-> 0, points |-> 0]

\* The players pushed to group g, in the order of the forEach over sorted.
RECURSIVE draftedInto(_, _, _, _)
draftedInto(sorted, index, g, groupCount) ==
    IF index >= Len(sorted) THEN <<>>
    ELSE (IF groupIndexOf(index, groupCount) = g
          THEN <<newStanding(sorted[index + 1])>> ELSE <<>>)
         \o draftedInto(sorted, index + 1, g, groupCount)

\* The fixtures of a group: the loops over i < j, in their order.
RECURSIVE fixturesFrom(_, _, _)
fixturesFrom(groupPlayers, i, j) ==
    IF i > Len(groupPlayers) THEN <<>>
    ELSE IF j > Len(groupPlayers) THEN fixturesFrom(groupPlayers, i + 1, i + 2)
    ELSE <<[player1Id |-> groupPlayers[i].id, player2Id |-> groupPlayers[j].id,
            winnerId |-> Null, score |-> Null, status |-> "ready"]>>
         \o fixturesFrom(groupPlayers, i, j + 1)

generateRoundRobinGroups(players, groupCount) ==
    LET sorted == sortByElo(players)
    IN [g \in 1..groupCount |->
          LET groupPlayers == draftedInto(sorted, 0, g - 1, groupCount)
          IN [players |-> groupPlayers,
              matches |-> fixturesFrom(groupPlayers, 1, 2)]]

generateRoundRobinKnockout(groupCount, bronzeMatchEnabled) ==
    << emptyMatch(1, 0, "regular", legsConfig.semifinal),
       emptyMatch(1, 1, "regular", legsConfig.semifinal),
       emptyMatch(2, 0, "regular", legsConfig.final) >>
    \o (IF bronzeMatchEnabled
        THEN <<emptyMatch(2, 1, "bronze", legsConfig.bronze)>> ELSE <<>>)

\* ------------------------------------------------- createTournament
\* The tournament record createTournament stores, given its bracket and
\* groups (Null where the code has null).
newTournament(format, selectedCount, bracketSize, groupCount, bronzeMatchEnabled, bracket, groups) ==
    [format |-> format,
     playerCount |-> selectedCount,
     bracketSize |-> IF format = "cup" THEN Some(bracketSize) ELSE Null,
     groupCount |-> IF format = "round_robin" THEN Some(groupCount) ELSE Null,
     status |-> IF format = "cup" THEN "knockout" ELSE "group_stage",
     winnerId |-> Null, secondPlaceId |-> Null, thirdPlaceId |-> Null,
     bronzeMatchEnabled |-> bronzeMatchEnabled,
     groups |-> groups, bracket |-> bracket]

\* ------------------------------------------------ updateBracketMatch
slotId(slot) == IF slot = Null THEN Null ELSE Some(slot[1].id)

RECURSIVE maxRound(_)
maxRound(bracket) ==
    IF bracket = <<>> THEN 0
    ELSE LET rest == maxRound(Tail(bracket))
         IN IF Head(bracket).round > rest THEN Head(bracket).round ELSE rest

isBronze(m) == m.matchType = "bronze"

\* A faulty advanceWinner that fills the other slot of the next match.
advanceWinnerOtherSlot(updatedBracket, match, winnerId) ==
    LET n == nextRegular(updatedBracket, match)
        isPlayer1 == match.position % 2 = 0
        winner == IF slotId(match.player1) = Some(winnerId)
                  THEN match.player1 ELSE match.player2
    IN IF n = 0 THEN updatedBracket
       ELSE LET nextMatch == updatedBracket[n]
                placed == IF isPlayer1 THEN [nextMatch EXCEPT !.player2 = winner]
                          ELSE [nextMatch EXCEPT !.player1 = winner]
            IN [updatedBracket EXCEPT ![n] =
                  IF placed.player1 # Null /\ placed.player2 # Null
                        /\ placed.status = "pending"
                  THEN [placed EXCEPT !.status = "ready"] ELSE placed]

\* Lines 721-747: the winner goes to the next regular match.
advanceWinner(updatedBracket, match, winnerId) ==
    LET n == nextRegular(updatedBracket, match)
        isPlayer1 == match.position % 2 = 0
        winner == IF slotId(match.player1) = Some(winnerId)
                  THEN match.player1 ELSE match.player2
    IN IF n = 0 THEN updatedBracket
       ELSE LET nextMatch == updatedBracket[n]
                placed == IF isPlayer1 THEN [nextMatch EXCEPT !.player1 = winner]
                          ELSE [nextMatch EXCEPT !.player2 = winner]
            IN [updatedBracket EXCEPT ![n] =
                  IF placed.player1 # Null /\ placed.player2 # Null
                        /\ placed.status = "pending"
                  THEN [placed EXCEPT !.status = "ready"] ELSE placed]

\* A faulty feedBronze that never sets the bronze match ready.
feedBronzeKeepingPending(updatedBracket, match, loser) ==
    LET b == findMatch({idx \in DOMAIN updatedBracket : isBronze(updatedBracket[idx])})
    IN IF b = 0 \/ loser = Null THEN updatedBracket
       ELSE LET bronzeMatch == updatedBracket[b]
            IN [updatedBracket EXCEPT ![b] =
                  IF match.position = 0
                  THEN [bronzeMatch EXCEPT !.player1 = loser]
                  ELSE [bronzeMatch EXCEPT !.player2 = loser]]

\* Lines 749-766: the loser of a semifinal goes to the bronze match.
feedBronze(updatedBracket, match, loser) ==
    LET b == findMatch({idx \in DOMAIN updatedBracket : isBronze(updatedBracket[idx])})
    IN IF b = 0 \/ loser = Null THEN updatedBracket
       ELSE LET bronzeMatch == updatedBracket[b]
                placed == IF match.position = 0
                          THEN [bronzeMatch EXCEPT !.player1 = loser]
                          ELSE [bronzeMatch EXCEPT !.player2 = loser]
            IN [updatedBracket EXCEPT ![b] =
                  IF placed.player1 # Null /\ placed.player2 # Null
                        /\ placed.status = "pending"
                  THEN [placed EXCEPT !.status = "ready"] ELSE placed]

\* finalMatch of lines 770-772: the index of the final, 0 if there is none.
finalOf(updatedBracket, totalRounds) ==
    LET isFinal(m) == m.round = totalRounds /\ m.matchType = "regular"
    IN findMatch({idx \in DOMAIN updatedBracket : isFinal(updatedBracket[idx])})

\* A faulty completion test that does not wait for the bronze match.
bracketCompleteWithoutBronze(updatedBracket, totalRounds, bronzeMatchEnabled) ==
    LET f == finalOf(updatedBracket, totalRounds)
    IN f # 0 /\ updatedBracket[f].status = "completed"

\* tournamentComplete of lines 775-778.
bracketComplete(updatedBracket, totalRounds, bronzeMatchEnabled) ==
    LET f == finalOf(updatedBracket, totalRounds)
        b == findMatch({idx \in DOMAIN updatedBracket : isBronze(updatedBracket[idx])})
        finalDone == f # 0 /\ updatedBracket[f].status = "completed"
    IN IF bronzeMatchEnabled /\ b # 0
       THEN finalDone /\ updatedBracket[b].status = "completed"
       ELSE finalDone

\* The stored tournament after updateBracketMatch(matchIndex, winnerId,
\* score); fetch and write are taken as one step.
updateBracketMatch(stored, matchIndex, winnerId, score) ==
    IF stored.bracket = Null THEN stored
    ELSE
    LET bracket == stored.bracket[1]
        match == bracket[matchIndex]
        completed == [bracket EXCEPT ![matchIndex] =
                        [match EXCEPT !.winnerId = Some(winnerId),
                                      !.score = Some(score),
                                      !.status = "completed"]]
        loser == IF slotId(match.player1) = Some(winnerId)
                 THEN match.player2 ELSE match.player1
        totalRounds == maxRound(bracket)
        nextRound == match.round + 1
        advanced == IF match.matchType = "regular" /\ nextRound <= totalRounds
                    THEN advanceWinner(completed, match, winnerId)
                    ELSE completed
        updatedBracket ==
            IF /\ match.matchType = "regular" /\ nextRound <= totalRounds
               /\ stored.bronzeMatchEnabled /\ match.round = totalRounds - 1
            THEN feedBronze(advanced, match, loser)
            ELSE advanced
        f == finalOf(updatedBracket, totalRounds)
        b == findMatch({idx \in DOMAIN updatedBracket : isBronze(updatedBracket[idx])})
        tournamentComplete ==
            bracketComplete(updatedBracket, totalRounds, stored.bronzeMatchEnabled)
        withBracket == [stored EXCEPT !.bracket = Some(updatedBracket)]
    IN IF ~tournamentComplete THEN withBracket
       ELSE LET finalMatch == updatedBracket[f]
            IN [withBracket EXCEPT
                  !.status = "completed",
                  !.winnerId = finalMatch.winnerId,
                  !.secondPlaceId =
                      IF slotId(finalMatch.player1) = finalMatch.winnerId
                      THEN slotId(finalMatch.player2)
                      ELSE slotId(finalMatch.player1),
                  !.thirdPlaceId =
                      IF b # 0 /\ updatedBracket[b].winnerId # Null
                      THEN updatedBracket[b].winnerId ELSE @]

\* -------------------------------------------------- updateGroupMatch
\* The comparator of the standings sort (lines 884-887): positive when b
\* ranks before a.
compareStandings(a, b) ==
    IF b.points # a.points THEN b.points - a.points
    ELSE (b.legsFor - b.legsAgainst) - (a.legsFor - a.legsAgainst)

RECURSIVE insertStanding(_, _)
insertStanding(sorted, p) ==
    IF sorted = <<>> THEN <<p>>
    ELSE IF compareStandings(Head(sorted), p) > 0 THEN <<p>> \o sorted
         ELSE <<Head(sorted)>> \o insertStanding(Tail(sorted), p)

\* [...players].sort(comparator): a stable sort.
RECURSIVE sortStandings(_)
sortStandings(players) ==
    IF players = <<>> THEN <<>>
    ELSE insertStanding(sortStandings(ButLast(players)), Last(players))

\* A faulty standings update that gives the loser a point.
recordedStandingLoserPoint(p, match, winnerId, score) ==
    LET isWinner == winnerId = p.id
        mine == IF p.id = match.player1Id THEN score[1] ELSE score[2]
        theirs == IF p.id = match.player1Id THEN score[2] ELSE score[1]
    IN IF p.id = match.player1Id \/ p.id = match.player2Id
       THEN [p EXCEPT !.played = @ + 1,
                      !.won = @ + Bool2Int(isWinner),
                      !.lost = @ + Bool2Int(~isWinner),
                      !.legsFor = @ + mine,
                      !.legsAgainst = @ + theirs,
                      !.points = @ + (IF isWinner THEN 2 ELSE 1)]
       ELSE p

\* A faulty standings update in which the branch of player 2 credits the
\* legs of player 1.
recordedStandingFirstLegs(p, match, winnerId, score) ==
    LET isWinner == winnerId = p.id
        theirs == IF p.id = match.player1Id THEN score[2] ELSE score[1]
    IN IF p.id = match.player1Id \/ p.id = match.player2Id
       THEN [p EXCEPT !.played = @ + 1,
                      !.won = @ + Bool2Int(isWinner),
                      !.lost = @ + Bool2Int(~isWinner),
                      !.legsFor = @ + score[1],
                      !.legsAgainst = @ + theirs,
                      !.points = @ + (IF isWinner THEN 2 ELSE 0)]
       ELSE p

\* The standing of p after the result of match (lines 838-864).
recordedStanding(p, match, winnerId, score) ==
    LET isWinner == winnerId = p.id
        mine == IF p.id = match.player1Id THEN score[1] ELSE score[2]
        theirs == IF p.id = match.player1Id THEN score[2] ELSE score[1]
    IN IF p.id = match.player1Id \/ p.id = match.player2Id
       THEN [p EXCEPT !.played = @ + 1,
                      !.won = @ + Bool2Int(isWinner),
                      !.lost = @ + Bool2Int(~isWinner),
                      !.legsFor = @ + mine,
                      !.legsAgainst = @ + theirs,
                      !.points = @ + (IF isWinner THEN 2 ELSE 0)]
       ELSE p

qualifier(standing) == Some([id |-> standing.id, seed |-> 0])

\* Lines 899-918 and 930-949: a semifinal is filled and set ready.
fillSemifinal(bracket, position, p1, p2) ==
    LET Test(m) == m.round = 1 /\ m.position = position
        k == findMatch({idx \in DOMAIN bracket : Test(bracket[idx])})
    IN IF k = 0 THEN bracket
       ELSE [bracket EXCEPT ![k] = [@ EXCEPT !.player1 = p1, !.player2 = p2,
                                             !.status = "ready"]]

allGroupsComplete(groups) ==
    \A g \in DOMAIN groups :
       \A k \in DOMAIN groups[g].matches :
          groups[g].matches[k].status = "completed"

\* A faulty population that pairs the two group winners in semifinal 1.
populateKnockoutWinnersMeet(bracket, groups, groupCount) ==
    IF groupCount = Some(2)
    THEN LET sortedA == sortStandings(groups[1].players)
             sortedB == sortStandings(groups[2].players)
         IN fillSemifinal(
               fillSemifinal(bracket, 0, qualifier(sortedA[1]), qualifier(sortedB[1])),
               1, qualifier(sortedB[2]), qualifier(sortedA[2]))
    ELSE LET groupWinners ==
                 [g \in DOMAIN groups |-> qualifier(sortStandings(groups[g].players)[1])]
         IN fillSemifinal(
               fillSemifinal(bracket, 0, groupWinners[1], groupWinners[2]),
               1, groupWinners[3], groupWinners[4])

\* The knockout bracket populated from the final group standings.
populateKnockout(bracket, groups, groupCount) ==
    IF groupCount = Some(2)
    THEN LET sortedA == sortStandings(groups[1].players)
             sortedB == sortStandings(groups[2].players)
         IN fillSemifinal(
               fillSemifinal(bracket, 0, qualifier(sortedA[1]), qualifier(sortedB[2])),
               1, qualifier(sortedB[1]), qualifier(sortedA[2]))
    ELSE LET groupWinners ==
                 [g \in DOMAIN groups |-> qualifier(sortStandings(groups[g].players)[1])]
         IN fillSemifinal(
               fillSemifinal(bracket, 0, groupWinners[1], groupWinners[2]),
               1, groupWinners[3], groupWinners[4])

\* The stored tournament after updateGroupMatch(groupIndex, matchIndex,
\* winnerId, score); fetch and write are taken as one step.
updateGroupMatch(stored, groupIndex, matchIndex, winnerId, score) ==
    IF stored.groups = Null THEN stored
    ELSE
    LET groups == stored.groups[1]
        group == groups[groupIndex]
        match == group.matches[matchIndex]
        updatedGroup ==
            [matches |-> [group.matches EXCEPT ![matchIndex] =
                             [match EXCEPT !.winnerId = Some(winnerId),
                                           !.score = Some(score),
                                           !.status = "completed"]],
             players |-> [k \in DOMAIN group.players |->
                             recordedStanding(group.players[k], match,
                                              winnerId, score)]]
        updatedGroups == [groups EXCEPT ![groupIndex] = updatedGroup]
        withGroups == [stored EXCEPT !.groups = Some(updatedGroups)]
    IN IF allGroupsComplete(updatedGroups) /\ stored.bracket # Null
       THEN [withGroups EXCEPT
               !.bracket = Some(populateKnockout(stored.bracket[1],
                                   updatedGroups, stored.groupCount)),
               !.status = "knockout"]
       ELSE withGroups

\* ---------------------------------------------------- updateTournament
\* The stored row after updateTournament has written the updates that
\* updateBracketMatch built from the row it fetched (lines 780-801): the
\* bracket always, and status and places when the fetched bracket with the
\* result is complete.  Only the columns named in updates are written (lines
\* 627-636).
writeBracketUpdates(stored, fetched, matchIndex, winnerId, score) ==
    LET after == updateBracketMatch(fetched, matchIndex, winnerId, score)
        updatedBracket == after.bracket[1]
        b == findMatch({idx \in DOMAIN updatedBracket : isBronze(updatedBracket[idx])})
    IN IF fetched.bracket = Null THEN stored
       ELSE IF bracketComplete(updatedBracket, maxRound(updatedBracket),
                               fetched.bronzeMatchEnabled)
       THEN [stored EXCEPT
               !.bracket = after.bracket,
               !.status = "completed",
               !.winnerId = after.winnerId,
               !.secondPlaceId = after.secondPlaceId,
               !.thirdPlaceId = IF b # 0 /\ updatedBracket[b].winnerId # Null
                                THEN after.thirdPlaceId ELSE @]
       ELSE [stored EXCEPT !.bracket = after.bracket]

\* The same for updateGroupMatch (lines 873-956): the groups always, and
\* bracket and status when the fetched groups with the result are complete.
writeGroupUpdates(stored, fetched, groupIndex, matchIndex, winnerId, score) ==
    LET after == updateGroupMatch(fetched, groupIndex, matchIndex, winnerId, score)
    IN IF fetched.groups = Null THEN stored
       ELSE IF allGroupsComplete(after.groups[1]) /\ fetched.bracket # Null
       THEN [stored EXCEPT !.groups = after.groups,
                           !.bracket = after.bracket,
                           !.status = "knockout"]
       ELSE [stored EXCEPT !.groups = after.groups]

\* ================================================================ actions
\* used counts the counted events handled so far: the events that record a
\* visit, touch the dart pad, undo or edit.  The other events (the bust
\* branch of a submitted score, the popups, confirming or cancelling a leg
\* win, the steps of a save) move within finitely many states between two
\* counted events.
\* An event whose handler changes the component state to c; counted says
\* whether it is a counted event.
Handled(c, counted) ==
    /\ c # Cur
    /\ used + Bool2Int(counted) <= MaxEvents
    /\ game' = c.game
    /\ lastAction' = c.lastAction
    /\ pendingDoubleAttempts' = c.pendingDoubleAttempts
    /\ saveMatchCalls' = c.saveMatchCalls
    /\ saveTasks' = c.saveTasks
    /\ used' = used + Bool2Int(counted)
    /\ UNCHANGED tournamentVars

\* Whether the event leading to c records a visit of the player to throw.
RecordsVisit(c) ==
    LET p == game.currentPlayerIndex
    IN Len(c.game.players[p].throws) > Len(game.players[p].throws)

\* No tournament is in progress.
NoTournament ==
    tournament = Null /\ creation = Null /\ recorded = 0 /\ calls = <<>>

Init ==
    /\ \E n \in PlayerCounts, mode \in Modes, legs \in 1..MaxLegsToWin,
          ranked \in BOOLEAN :
          game = NewGame(n, mode, legs, ranked)
    /\ lastAction = Null
    /\ pendingDoubleAttempts = Null
    /\ saveMatchCalls = 0
    /\ saveTasks = <<>>
    /\ used = 0
    /\ NoTournament

\* handleNumberPad("submit") with a parsed score of 0..180.
NumberPadSubmit ==
    \E score \in Scores :
       /\ score >= 0 /\ score <= 180
       /\ LET c == submitScore(Cur, Cur, score, FALSE, 0, 0)
          IN Handled(c, RecordsVisit(c))

\* handleQuickScore
QuickScore ==
    \E score \in QuickScores :
       /\ ~game.gameOver /\ game.pendingLegWin = Null
       /\ LET c == submitScore(Cur, Cur, score, FALSE, 0, 0)
          IN Handled(c, RecordsVisit(c))

\* The Bust control: handleBust()
Bust ==
    LET c == handleBust(Cur, Cur, FALSE, 0)
    IN Handled(c, RecordsVisit(c))

ConfirmDoubleAttempts ==
    \E dartsThrown \in DartsAtDouble :
       LET c == confirmDoubleAttempts(Cur, Cur, dartsThrown)
       IN Handled(c, RecordsVisit(c))

ConfirmLegWin ==
    Handled(confirmLegWin(Cur, Cur), FALSE)

\* Outside a pending leg win cancelLegWin runs handleUndo to its end, so it
\* is counted as an undo there.
CancelLegWin ==
    LET undoes == lastAction # Null /\ game.pendingLegWin = Null
    IN Handled(cancelLegWin(Cur, Cur), undoes)

Undo ==
    Handled(handleUndo(Cur, Cur), TRUE)

\* openEditThrow on a listed visit, then handleSaveEditThrow with a new value.
EditThrow ==
    \E playerIndex \in DOMAIN game.players, newValue \in EditValues :
       \E throwIndex \in 0..(Len(game.players[playerIndex].throws) - 1) :
          Handled(handleSaveEditThrow(Cur, Cur, playerIndex, throwIndex, newValue), TRUE)

ModeToggle ==
    \E mode \in {"round", "dart"} :
       Handled(handleModeToggle(Cur, Cur, mode), TRUE)

MultiplierSelect ==
    \E multiplier \in Multipliers :
       Handled(handleMultiplierSelect(Cur, Cur, multiplier), TRUE)

DartInput ==
    \E value \in DartButtons :
       Handled(handleDartInput(Cur, Cur, value), TRUE)

DartMiss ==
    Handled(handleDartMiss(Cur, Cur), TRUE)

DartUndo ==
    Handled(handleDartUndo(Cur, Cur), TRUE)

DartSubmit ==
    LET c == handleDartSubmit(Cur, Cur)
    IN Handled(c, RecordsVisit(c))

DartBust ==
    LET c == handleDartBust(Cur, Cur)
    IN Handled(c, RecordsVisit(c))

\* An awaited call of an asynchronous save returns.
SaveStep ==
    \E i \in DOMAIN saveTasks :
       Handled(resumeSave(Cur, i), FALSE)

Next ==
    \/ NumberPadSubmit
    \/ QuickScore
    \/ Bust
    \/ ConfirmDoubleAttempts
    \/ ConfirmLegWin
    \/ CancelLegWin
    \/ Undo
    \/ EditThrow
    \/ ModeToggle
    \/ MultiplierSelect
    \/ DartInput
    \/ DartMiss
    \/ DartUndo
    \/ DartSubmit
    \/ DartBust
    \/ SaveStep

Spec == Init /\ [][Next]_vars

\* ------------------------------------------------ late in a leg
\* The component as constructed for a match (init effect, lines 564-613).
Constructed(n, mode, legsToWin, isRanked) ==
    [game |-> NewGame(n, mode, legsToWin, isRanked), lastAction |-> Null,
     pendingDoubleAttempts |-> Null, saveMatchCalls |-> 0, saveTasks |-> <<>>]

\* The component after the listed scores were submitted on the number pad,
\* one visit after the other.
RECURSIVE Played(_, _)
Played(c, scores) ==
    IF scores = <<>> THEN c
    ELSE Played(submitScore(c, c, Head(scores), FALSE, 0, 0), Tail(scores))

\* Openings of a 301 leg that bring both players near a finish: to 40
\* (on a double) and to 58 (one single 20 away from a double).
Openings == {<<180, 180, 81, 81>>, <<81, 81, 81, 81, 81, 81>>}

\* A match that is late in its first leg: an opening has been played from
\* the constructed match in either entry mode, and MaxLateEvents further
\* events are explored.
InitLateLeg ==
    /\ \E legs \in 1..MaxLegsToWin, ranked \in BOOLEAN, opening \in Openings,
          mode \in {"round", "dart"} :
          LET c0 == Constructed(2, "301", legs, ranked)
              c == Played(handleModeToggle(c0, c0, mode), opening)
          IN /\ game = c.game
             /\ lastAction = c.lastAction
             /\ pendingDoubleAttempts = c.pendingDoubleAttempts
             /\ saveMatchCalls = c.saveMatchCalls
             /\ saveTasks = c.saveTasks
    /\ used = MaxEvents - MaxLateEvents
    /\ NoTournament

SpecLateLeg == InitLateLeg /\ [][Next]_vars

\* Totals that continue or finish a leg from 40: entered on the number pad
\* by a player who is on a double.
FinishScores == {20, 40}

NumberPadFinish ==
    \E score \in FinishScores :
       LET c == submitScore(Cur, Cur, score, FALSE, 0, 0)
       IN Handled(c, RecordsVisit(c))

NextOnDouble ==
    \/ NumberPadSubmit
    \/ NumberPadFinish
    \/ QuickScore
    \/ Bust
    \/ ConfirmDoubleAttempts
    \/ ConfirmLegWin
    \/ CancelLegWin
    \/ Undo
    \/ EditThrow
    \/ ModeToggle
    \/ MultiplierSelect
    \/ DartInput
    \/ DartMiss
    \/ DartUndo
    \/ DartSubmit
    \/ DartBust
    \/ SaveStep

\* The late leg with the finishing totals among the entries.
SpecOnDouble == InitLateLeg /\ [][NextOnDouble]_vars

\* ------------------------------------------------ tournament actions
\* The setup page: the bracket size follows the number of selected players
\* (setup/page.tsx lines 56-61).
bracketSizeFor(count) == IF count <= 4 THEN 4 ELSE IF count <= 8 THEN 8 ELSE 16

\* Numbers of selected players: at least 3 for a cup (canProceed); the
\* page sets no upper limit (togglePlayer, lines 63-69), so one count above
\* the largest bracket is included.
CupPlayerCounts == 3..17
\* Round-robin setups <<players, groups>>: at least 4 players, 2 or 4 groups.
RoundRobinSetups == {<<4, 2>>, <<5, 2>>, <<6, 2>>, <<4, 4>>, <<5, 4>>, <<8, 4>>}
\* Mode-specific ratings of the selected players, in selection order.
Ratings == {"rising", "level"}
\* Legs of the loser of a recorded bracket match and of a group match.
BracketLoserLegs == {0}
GroupLoserLegs == {0, 1}

selectedPlayers(count, rating) ==
    [i \in 1..count |->
        [id |-> i, elo |-> IF rating = "rising" THEN 1000 + i ELSE 1000]]

Setups ==
    [format : {"cup"}, count : CupPlayerCounts, groupCount : {0},
     bronzeMatchEnabled : BOOLEAN, rating : Ratings]
    \cup
    {[format |-> "round_robin", count |-> rr[1], groupCount |-> rr[2],
      bronzeMatchEnabled |-> b, rating |-> r] :
        rr \in RoundRobinSetups, b \in BOOLEAN, r \in Ratings}

\* The setups whose tournaments are played: every cup of up to 9 players,
\* every round robin of up to 5, and the larger ones (the full bracket of
\* 16, four groups of two) with a bronze match and level ratings.
PlayedSetups ==
    {s \in Setups :
        \/ s.count <= 5
        \/ s.format = "cup" /\ s.count <= 9
        \/ s.count \in {8, 16} /\ s.bronzeMatchEnabled /\ s.rating = "level"}

\* No match is being scored.
NoMatch ==
    /\ game = Null /\ lastAction = Null /\ pendingDoubleAttempts = Null
    /\ saveMatchCalls = 0 /\ saveTasks = <<>> /\ used = 0

\* createTournament has been called with one of the setups and has
\* generated the matches; for a cup, processWalkovers is about to enter its
\* loop.
Creating(setups) ==
    /\ NoMatch
    /\ tournament = Null
    /\ recorded = 0
    /\ calls = <<>>
    /\ \E setup \in setups :
          LET players == selectedPlayers(setup.count, setup.rating)
          IN creation = Some(
                [setup |-> setup,
                 matches |-> IF setup.format = "cup"
                             THEN cupMatches(players, bracketSizeFor(setup.count),
                                             setup.bronzeMatchEnabled)
                             ELSE generateRoundRobinKnockout(setup.groupCount,
                                             setup.bronzeMatchEnabled),
                 changed |-> setup.format = "cup",
                 passes |-> 0])

\* One execution of the body of while (changed) in processWalkovers.
WalkoverPass ==
    /\ creation # Null
    /\ creation[1].changed
    /\ LET scan == walkoverPass(creation[1].matches)
       IN creation' = Some([creation[1] EXCEPT !.matches = scan.matches,
                                               !.changed = scan.changed,
                                               !.passes = @ + 1])
    /\ UNCHANGED <<tournament, recorded, calls>>
    /\ UNCHANGED matchVars

\* The loop has ended: createTournament builds the row and stores it.
StoreTournament ==
    /\ creation # Null
    /\ ~creation[1].changed
    /\ LET setup == creation[1].setup
           players == selectedPlayers(setup.count, setup.rating)
       IN tournament' = Some(newTournament(setup.format, setup.count,
              bracketSizeFor(setup.count), setup.groupCount,
              setup.bronzeMatchEnabled, Some(creation[1].matches),
              IF setup.format = "cup" THEN Null
              ELSE Some(generateRoundRobinGroups(players, setup.groupCount))))
    /\ creation' = Null
    /\ UNCHANGED <<recorded, calls>>
    /\ UNCHANGED matchVars

\* A ready bracket match (the matches the bracket view offers to play) is
\* played and its result recorded by updateBracketMatch.
RecordBracketResult ==
    /\ tournament # Null
    /\ tournament[1].bracket # Null
    /\ recorded < MaxResults
    /\ \E k \in DOMAIN tournament[1].bracket[1], winnerIsPlayer1 \in BOOLEAN,
          loserLegs \in BracketLoserLegs :
          LET match == tournament[1].bracket[1][k]
              winner == IF winnerIsPlayer1 THEN match.player1 ELSE match.player2
              score == IF winnerIsPlayer1 THEN <<match.legsToWin, loserLegs>>
                       ELSE <<loserLegs, match.legsToWin>>
          IN /\ match.status = "ready"
             /\ loserLegs < match.legsToWin
             /\ tournament' = Some(updateBracketMatch(tournament[1], k,
                                      winner[1].id, score))
    /\ recorded' = recorded + 1
    /\ UNCHANGED <<creation, calls>>
    /\ UNCHANGED matchVars

\* A ready group match is played and its result recorded by updateGroupMatch.
RecordGroupResult ==
    /\ tournament # Null
    /\ tournament[1].groups # Null
    /\ recorded < MaxResults
    /\ \E g \in DOMAIN tournament[1].groups[1], winnerIsPlayer1 \in BOOLEAN,
          loserLegs \in GroupLoserLegs :
          \E k \in DOMAIN tournament[1].groups[1][g].matches :
          LET match == tournament[1].groups[1][g].matches[k]
              winnerId == IF winnerIsPlayer1 THEN match.player1Id
                          ELSE match.player2Id
              score == IF winnerIsPlayer1 THEN <<legsConfig.groupStage, loserLegs>>
                       ELSE <<loserLegs, legsConfig.groupStage>>
          IN /\ match.status = "ready"
             /\ loserLegs < legsConfig.groupStage
             /\ tournament' = Some(updateGroupMatch(tournament[1], g, k,
                                      winnerId, score))
    /\ recorded' = recorded + 1
    /\ UNCHANGED <<creation, calls>>
    /\ UNCHANGED matchVars

\* Tournaments from their creation to their last recorded result.
InitTournament == Creating(PlayedSetups)

NextTournament ==
    \/ WalkoverPass
    \/ StoreTournament
    \/ RecordBracketResult
    \/ RecordGroupResult

SpecTournament == InitTournament /\ [][NextTournament]_vars

\* createTournament alone, for every setup.
InitCreation == Creating(Setups)

NextCreation ==
    \/ WalkoverPass
    \/ StoreTournament

SpecCreation == InitCreation /\ [][NextCreation]_vars

\* ------------------------------------------------- concurrent callers
\* The tournaments of four players on which callers record side by side.
ConcurrentSetups ==
    {s \in Setups : s.count = 4 /\ s.groupCount \in {0, 2} /\ s.rating = "level"}

\* No call has been issued for the match yet.
NotCalled(kind, groupIndex, matchIndex) ==
    \A i \in DOMAIN calls :
       ~(/\ calls[i].kind = kind /\ calls[i].groupIndex = groupIndex
         /\ calls[i].matchIndex = matchIndex)

\* A caller whose bracket match has ended calls updateBracketMatch, which
\* fetches the tournament (line 700).
FetchForBracketMatch ==
    /\ tournament # Null
    /\ tournament[1].bracket # Null
    /\ Len(calls) < MaxCalls
    /\ \E k \in DOMAIN tournament[1].bracket[1], winnerIsPlayer1 \in BOOLEAN :
          LET match == tournament[1].bracket[1][k]
              winner == IF winnerIsPlayer1 THEN match.player1 ELSE match.player2
              score == IF winnerIsPlayer1 THEN <<match.legsToWin, 0>>
                       ELSE <<0, match.legsToWin>>
          IN /\ match.status = "ready"
             /\ NotCalled("bracket", 0, k)
             /\ calls' = Append(calls,
                   [kind |-> "bracket", groupIndex |-> 0, matchIndex |-> k,
                    winnerId |-> winner[1].id, score |-> score,
                    fetched |-> tournament[1], written |-> FALSE])
    /\ UNCHANGED <<tournament, creation, recorded>>
    /\ UNCHANGED matchVars

\* The same for a group match and updateGroupMatch (line 813).
FetchForGroupMatch ==
    /\ tournament # Null
    /\ tournament[1].groups # Null
    /\ Len(calls) < MaxCalls
    /\ \E g \in DOMAIN tournament[1].groups[1], winnerIsPlayer1 \in BOOLEAN :
          \E k \in DOMAIN tournament[1].groups[1][g].matches :
          LET match == tournament[1].groups[1][g].matches[k]
              winnerId == IF winnerIsPlayer1 THEN match.player1Id
                          ELSE match.player2Id
              score == IF winnerIsPlayer1 THEN <<legsConfig.groupStage, 0>>
                       ELSE <<0, legsConfig.groupStage>>
          IN /\ match.status = "ready"
             /\ NotCalled("group", g, k)
             /\ calls' = Append(calls,
                   [kind |-> "group", groupIndex |-> g, matchIndex |-> k,
                    winnerId |-> winnerId, score |-> score,
                    fetched |-> tournament[1], written |-> FALSE])
    /\ UNCHANGED <<tournament, creation, recorded>>
    /\ UNCHANGED matchVars

\* A call that has fetched writes its updates with updateTournament.
WriteBack ==
    /\ tournament # Null
    /\ \E i \in DOMAIN calls :
          LET call == calls[i]
          IN /\ ~call.written
             /\ tournament' = Some(
                   IF call.kind = "bracket"
                   THEN writeBracketUpdates(tournament[1], call.fetched,
                           call.matchIndex, call.winnerId, call.score)
                   ELSE writeGroupUpdates(tournament[1], call.fetched,
                           call.groupIndex, call.matchIndex, call.winnerId,
                           call.score))
             /\ calls' = [calls EXCEPT ![i].written = TRUE]
    /\ recorded' = recorded + 1
    /\ UNCHANGED creation
    /\ UNCHANGED matchVars

InitConcurrent == Creating(ConcurrentSetups)

NextConcurrent ==
    \/ WalkoverPass
    \/ StoreTournament
    \/ FetchForBracketMatch
    \/ FetchForGroupMatch
    \/ WriteBack

SpecConcurrent == InitConcurrent /\ [][NextConcurrent]_vars

\* ================================================================= claims
currentPlayer == game.players[game.currentPlayerIndex]

\* The component accepts a visit: the guard of submitScore and handleBust.
AcceptsVisit ==
    ~game.gameOver /\ game.pendingLegWin = Null /\ pendingDoubleAttempts = Null

SameRemaining(c) ==
    \A i \in DOMAIN game.players :
       c.game.players[i].remaining = game.players[i].remaining

BustTotals(remaining) ==
    {s \in Scores \cup {remaining - 1, remaining + 1} :
        /\ s >= 0 /\ s <= 180
        /\ (remaining - s < 0 \/ remaining - s = 1)}

\* C2: submitting a visit with remaining - visit < 0 or remaining - visit = 1
\* changes no player's remaining: for a total entered on the number pad,
\* for a total answered through the darts-at-double popup, for the darts
\* submitted in dart-by-dart mode, and for a bust declared with the Bust
\* control in either mode.
C2_BustKeepsRemaining ==
    /\ \A s \in BustTotals(currentPlayer.remaining) :
          SameRemaining(submitScore(Cur, Cur, s, FALSE, 0, 0))
    /\ \A dartsThrown \in DartsAtDouble :
          (/\ pendingDoubleAttempts # Null
           /\ LET pda == pendingDoubleAttempts[1]
              IN \/ pda.score = -1
                 \/ pda.previousRemaining - pda.score < 0
                 \/ pda.previousRemaining - pda.score = 1)
          => SameRemaining(confirmDoubleAttempts(Cur, Cur, dartsThrown))
    /\ LET newRemaining == currentPlayer.remaining - getCurrentDartsTotal(game)
       IN (newRemaining < 0 \/ newRemaining = 1)
          => SameRemaining(handleDartSubmit(Cur, Cur))
    /\ SameRemaining(handleBust(Cur, Cur, FALSE, 0))
    /\ SameRemaining(handleDartBust(Cur, Cur))

\* A bust total has been submitted: only the bust branch of submitScore
\* clears lastScore of a player who has visits, and it passes the turn.
C2_BustSubmitted ==
    \E i \in DOMAIN game.players :
       LET p == game.players[i]
       IN /\ p.throws # <<>>
          /\ p.lastScore = NoScore
          /\ p.remaining = 121
          /\ game.currentPlayerIndex # i
          /\ lastAction # Null /\ lastAction[1].playerIndex # i

\* ------------------------------------------------------------------- C3
\* C3: pendingLegWin becomes set only by a visit of the player to throw
\* whose value equals the player's remaining (remaining - visit = 0), and
\* it names that player.
C3_LegWinOnlyByCheckout ==
    [][(game.pendingLegWin = Null /\ game'.pendingLegWin # Null)
       => LET w == game'.pendingLegWin[1].winnerIndex
          IN /\ w = game.currentPlayerIndex
             /\ game'.players[w].throws
                   = Append(game.players[w].throws, game.players[w].remaining)
             /\ game'.players[w].remaining = 0]_vars

\* A leg win is proposed for the player whose visit of 121 finished the leg.
C3_LegWinProposed ==
    /\ game.pendingLegWin # Null
    /\ lastAction # Null
    /\ LET w == game.pendingLegWin[1].winnerIndex
       IN /\ lastAction[1].playerIndex = w
          /\ lastAction[1].remaining = 121
          /\ Last(game.players[w].throws) = 121

\* ------------------------------------------------------------------- C4
\* The fields of a player that an undo is said to restore.
Undoable(p) ==
    [remaining |-> p.remaining, sixtyPlus |-> p.sixtyPlus,
     eightyPlus |-> p.eightyPlus, hundredPlus |-> p.hundredPlus,
     oneEighties |-> p.oneEighties, doubleAttempts |-> p.doubleAttempts,
     doubleHits |-> p.doubleHits]

\* The states a visit of the player to throw can lead to: a number pad or
\* quick score total, a declared bust, a popup answer, the darts of
\* dart-by-dart mode.
VisitOutcomes ==
    {submitScore(Cur, Cur, s, FALSE, 0, 0) : s \in Scores}
       \cup {handleBust(Cur, Cur, FALSE, 0), handleDartSubmit(Cur, Cur),
             handleDartBust(Cur, Cur)}
       \cup {confirmDoubleAttempts(Cur, Cur, d) : d \in DartsAtDouble}

\* C4: for every in-leg state and every visit applied to it that stays in
\* the leg, an undo right after the visit restores the player's remaining,
\* band counters and double counters to their values before the visit.
C4_UndoRestoresCounters ==
    \A c \in VisitOutcomes :
       LET i == game.currentPlayerIndex
       IN (/\ Len(c.game.players[i].throws) = Len(game.players[i].throws) + 1
           /\ c.game.pendingLegWin = Null)
          => Undoable(handleUndo(c, c).game.players[i])
                = Undoable(game.players[i])

\* ------------------------------------------------------------------- C5
\* C5: cancelling the leg win proposed by a checkout visit clears
\* pendingLegWin, restores the player's remaining to its value before the
\* checkout visit and removes the checkout visit from the player's visits.
C5_CancelUndoesCheckout ==
    (/\ game.pendingLegWin # Null
     /\ lastAction # Null
     /\ lastAction[1].playerIndex = game.pendingLegWin[1].winnerIndex
     /\ lastAction[1].score = lastAction[1].remaining)
    => LET w == game.pendingLegWin[1].winnerIndex
           c == cancelLegWin(Cur, Cur)
       IN /\ c.game.pendingLegWin = Null
          /\ c.game.players[w].remaining = lastAction[1].remaining
          /\ c.game.players[w].throws = ButLast(game.players[w].throws)

AllThrowsEmpty == \A i \in DOMAIN game.players : game.players[i].throws = <<>>

\* C7: leg 1 is started by player index 0; when leg k is confirmed and the
\* match is not won, the leg number becomes k + 1 and the player to throw
\* becomes index k mod playerCount; and as long as a leg has no visit the
\* player to throw is its starter.
C7_StarterRotation ==
    /\ (game.currentLeg = 1 /\ game.currentPlayerIndex = 0)
    /\ [][game'.currentLeg # game.currentLeg
          => /\ game'.currentLeg = game.currentLeg + 1
             /\ game'.currentPlayerIndex = game.currentLeg % playerCount(game)
             /\ ~game'.gameOver]_vars
    /\ [](AllThrowsEmpty
          => game.currentPlayerIndex = (game.currentLeg - 1) % playerCount(game))

\* Leg 2 has been started by player index 1 after that player won leg 1.
C7_SecondLegStarted ==
    /\ game.currentLeg = 2
    /\ AllThrowsEmpty
    /\ game.players[1].legsWon = 1
    /\ game.currentPlayerIndex = 1

\* ------------------------------------------------------------------- C8
\* The visit that proposes a leg win is appended and leaves the player on 0.
CheckoutRecorded(w) ==
    /\ game'.players[w].throws
          = Append(game.players[w].throws, game.players[w].remaining)
    /\ game'.players[w].remaining = 0

NoWinnerDecided(g) == ~g.gameOver /\ g.matchWinner = Null

RecordsZeroVisit(c) ==
    LET i == game.currentPlayerIndex
    IN /\ c.game.players[i].throws = Append(game.players[i].throws, 0)
       /\ c.game.currentPlayerIndex = (i + 1) % playerCount(game)
       /\ SameRemaining(c)
       /\ \A j \in DOMAIN game.players \ {i} :
             c.game.players[j] = game.players[j]
       /\ c.game.pendingLegWin = game.pendingLegWin
       /\ c.game.currentLeg = game.currentLeg

\* C9: every bust, detected from an entered total or declared with the Bust
\* control, appends exactly one zero visit for the busting player and passes
\* the turn, changing nothing else.  (Stated where the visit is accepted and
\* no darts-at-double popup comes between.)
C9_BustAppendsZeroVisit ==
    (/\ AcceptsVisit
     /\ ~(isOnDouble(currentPlayer.remaining) /\ game.inputMode = "round"))
    => /\ \A s \in BustTotals(currentPlayer.remaining) :
             RecordsZeroVisit(submitScore(Cur, Cur, s, FALSE, 0, 0))
       /\ RecordsZeroVisit(handleBust(Cur, Cur, FALSE, 0))

\* ------------------------------------------------------------------ C10
\* What a terminal match must keep.
Standing(g) ==
    [players |-> [i \in DOMAIN g.players |->
                    [remaining |-> g.players[i].remaining,
                     throws |-> g.players[i].throws,
                     legsWon |-> g.players[i].legsWon]],
     currentPlayerIndex |-> g.currentPlayerIndex,
     matchWinner |-> g.matchWinner]

\* The states a submit, bust, dart entry, undo, confirm or cancel operation
\* can lead to.
OperationOutcomes ==
    VisitOutcomes
       \cup {handleDartInput(Cur, Cur, v) : v \in DartButtons}
       \cup {handleDartMiss(Cur, Cur), handleDartUndo(Cur, Cur),
             handleUndo(Cur, Cur), confirmLegWin(Cur, Cur),
             cancelLegWin(Cur, Cur)}

ReachesZero(darts) ==
    darts # <<>> /\ dartsTotal(darts) = currentPlayer.remaining

\* Every dart that can be entered: a segment under each multiplier, the
\* bull and the outer bull.
DartEntries ==
    (Multipliers \X DartNumbers) \cup (Multipliers \X {50, 25})

\* C11: in dart-by-dart entry a visit that brings remaining to exactly zero
\* proposes a leg win only if its final dart is a double or the bullseye;
\* when the final dart is anything else, submitting the entered darts
\* changes nothing, and entering such a final dart changes nothing either.
C11_DartCheckoutNeedsDouble ==
    /\ ReachesZero(game.currentDarts) =>
          LET c == handleDartSubmit(Cur, Cur)
              finalDart == Last(game.currentDarts)
          IN /\ (game.pendingLegWin = Null /\ c.game.pendingLegWin # Null)
                   => finalDart.multiplier \in {"double", "bull"}
             /\ finalDart.multiplier \notin {"double", "bull"} => c = Cur
    /\ \A e \in DartEntries :
          LET c0 == handleMultiplierSelect(Cur, Cur, e[1])
              c == handleDartInput(c0, c0, e[2])
              newDart == newDartOf(c0.game, e[2])
          IN (/\ ReachesZero(Append(game.currentDarts, newDart))
              /\ newDart.multiplier \notin {"double", "bull"})
                => c = c0

\* Darts totalling exactly the remaining score are entered, the last of them
\* neither a double nor the bullseye, and the component accepts visits.
C11_ZeroOnOtherDart ==
    /\ AcceptsVisit
    /\ ReachesZero(game.currentDarts)
    /\ Last(game.currentDarts).multiplier \notin {"double", "bull"}

\* ---------------------------------------------------------------- C12
\* C12: whenever a step records a visit of a player (the player's list of
\* visits grows), the player's doubleAttempts increases if and only if the
\* player's remaining at the start of the visit was an even number from 2 to
\* 40 or exactly 50; busts included.
C12_DoubleAttemptIffOnDouble ==
    [][\A p \in DOMAIN game.players :
          Len(game'.players[p].throws) > Len(game.players[p].throws)
             => ((game'.players[p].doubleAttempts > game.players[p].doubleAttempts)
                   <=> isOnDouble(game.players[p].remaining))]_vars

\* ---------------------------------------------------------------- C13
\* The stored tournament is a cup with a bracket of 8 or 16.
LargeCup ==
    /\ tournament # Null
    /\ tournament[1].format = "cup"
    /\ tournament[1].bracketSize \in {Some(8), Some(16)}

\* The seeds of the players of a bracket match.
seedsIn(m) ==
    {slot[1].seed : slot \in {m.player1, m.player2} \ {Null}}

\* Seed 1 and seed N are the two players of one round-1 match.
TopMeetsBottom ==
    \E k \in DOMAIN tournament[1].bracket[1] :
       LET m == tournament[1].bracket[1][k]
       IN m.round = 1 /\ seedsIn(m) = {1, tournament[1].playerCount}

\* C13 as stated: in a generated cup bracket of size 8 or 16 with N seeded
\* players, seed 1 and seed N are never the two players of the same round-1
\* match.
C13_TopAndBottomSeedApart ==
    LargeCup => ~TopMeetsBottom

\* C13 amended: in a generated cup bracket of size 8 or 16 with N seeded
\* players, seed 1 and seed N are the two players of the same round-1 match
\* exactly when the bracket is full (N equals the bracket size).
C13_TopMeetsBottomOnlyWhenFull ==
    LargeCup =>
       (TopMeetsBottom <=> Some(tournament[1].playerCount) = tournament[1].bracketSize)

\* A full bracket of 8 or 16 has been generated and stored, and its first
\* round pairs seed 1 with seed N.
C13_FullBracketPairsTopAndBottom ==
    LargeCup /\ TopMeetsBottom

\* ---------------------------------------------------------------- C14
\* The stored tournament is a cup.
StoredCup == tournament # Null /\ tournament[1].format = "cup"

\* The round-1 walkovers of the stored bracket.
Walkovers ==
    {k \in DOMAIN tournament[1].bracket[1] :
        /\ tournament[1].bracket[1][k].round = 1
        /\ tournament[1].bracket[1][k].status = "walkover"}

\* The only player of a walkover.
solePlayer(m) == IF m.player1 # Null THEN m.player1 ELSE m.player2

\* The regular match at (round, position) of the stored bracket.
matchAt(round, position) ==
    LET bracket == tournament[1].bracket[1]
    IN bracket[CHOOSE k \in DOMAIN bracket :
                  /\ bracket[k].round = round /\ bracket[k].position = position
                  /\ bracket[k].matchType = "regular"]

\* C14: a cup bracket of size S generated for N players (S/2 < N <= S) has
\* exactly S - N round-1 walkovers, each with exactly one player who is its
\* winner, and each such player already stands in round 2 at position
\* floor(p/2), as player1 if the walkover's position p is even and as
\* player2 otherwise, before any result is recorded.
C14_ByesAdvanceAtGeneration ==
    (/\ StoredCup /\ recorded = 0
     /\ tournament[1].bracketSize[1] \div 2 < tournament[1].playerCount
     /\ tournament[1].playerCount <= tournament[1].bracketSize[1]) =>
       LET S == tournament[1].bracketSize[1]
           N == tournament[1].playerCount
           bracket == tournament[1].bracket[1]
       IN /\ Cardinality(Walkovers) = S - N
          /\ \A k \in Walkovers :
                LET m == bracket[k]
                    next == matchAt(2, m.position \div 2)
                IN /\ (m.player1 = Null) # (m.player2 = Null)
                   /\ m.winnerId = slotId(solePlayer(m))
                   /\ IF m.position % 2 = 0
                      THEN next.player1 = solePlayer(m)
                      ELSE next.player2 = solePlayer(m)

\* The bracket of 8 generated for 5 players is stored: it has 3 byes.
C14_FiveInBracketOfEight ==
    /\ StoredCup /\ recorded = 0
    /\ tournament[1].bracketSize = Some(8)
    /\ tournament[1].playerCount = 5
    /\ Cardinality(Walkovers) = 3

\* ---------------------------------------------------------------- C15
\* No pending match of the bracket has both player slots filled.
NoPendingFull(bracket) ==
    \A k \in DOMAIN bracket :
       bracket[k].status = "pending"
          => (bracket[k].player1 = Null \/ bracket[k].player2 = Null)

\* The work left to the loop of processWalkovers: the walkover winners not
\* yet standing in their next match, and the pending matches with both
\* player slots filled.
workLeft(matches) ==
    Cardinality({k \in DOMAIN matches :
                    LET m == matches[k]
                        n == nextRegular(matches, m)
                    IN /\ m.status = "walkover" /\ m.winnerId # Null
                       /\ n # 0
                       /\ IF m.position % 2 = 0 THEN matches[n].player1 = Null
                          ELSE matches[n].player2 = Null})
    + Cardinality({k \in DOMAIN matches :
                      /\ matches[k].status = "pending"
                      /\ matches[k].player1 # Null /\ matches[k].player2 # Null})

\* C15: for every generated bracket the loop of processWalkovers comes to
\* its end, because every pass after which the loop goes on (changed is
\* set) has strictly reduced the work left, a natural number; and the
\* bracket that is stored has no pending match with both player slots
\* filled.
C15_WalkoverCascadeEnds ==
    /\ [][(creation # Null /\ creation' # Null /\ creation'[1].changed)
             => workLeft(creation'[1].matches) < workLeft(creation[1].matches)]_vars
    /\ [](StoredCup => NoPendingFull(tournament[1].bracket[1]))

\* A stored cup in which the cascade has made a round-2 match ready: both
\* of its players came from walkovers.
C15_ReadyByWalkovers ==
    /\ StoredCup /\ recorded = 0
    /\ \E k \in DOMAIN tournament[1].bracket[1] :
          /\ tournament[1].bracket[1][k].round = 2
          /\ tournament[1].bracket[1][k].status = "ready"

\* ---------------------------------------------------------------- C16
\* Both player slots of a bracket match are filled.
BothSlotsFilled(m) == m.player1 # Null /\ m.player2 # Null

\* C16: in every stored tournament state, after generation and after any
\* recorded bracket and group results, a bracket match (the bronze match
\* included) is ready only if both of its player slots are filled, and no
\* match with both slots filled is still pending.
C16_ReadyMeansBothSlotsFilled ==
    (tournament # Null /\ tournament[1].bracket # Null) =>
       \A k \in DOMAIN tournament[1].bracket[1] :
          LET m == tournament[1].bracket[1][k]
          IN /\ m.status = "ready" => BothSlotsFilled(m)
             /\ BothSlotsFilled(m) => m.status # "pending"

\* Results have been recorded and the bronze match is ready with both
\* semifinal losers.
C16_BronzeReady ==
    /\ tournament # Null /\ tournament[1].bracket # Null
    /\ recorded > 0
    /\ \E k \in DOMAIN tournament[1].bracket[1] :
          LET m == tournament[1].bracket[1][k]
          IN isBronze(m) /\ m.status = "ready" /\ BothSlotsFilled(m)

\* ---------------------------------------------------------------- C17
\* The results that can be recorded for bracket match k: a winner among its
\* two players and a score.
BracketResults(k) ==
    LET m == tournament[1].bracket[1][k]
    IN {[winner |-> w, score |-> sc] :
           w \in {m.player1, m.player2},
           sc \in {<<m.legsToWin, 0>>, <<0, m.legsToWin>>}}

\* C17: when a ready regular bracket match at (round r, position p) with
\* r < totalRounds is completed with a winner and a score, it is marked
\* completed with that score and winner, the winner stands in the regular
\* match at (r + 1, floor(p/2)), as player1 if p is even and as player2
\* otherwise, and that next match is ready exactly when both of its slots
\* are filled.
C17_WinnerAdvances ==
    (tournament # Null /\ tournament[1].bracket # Null) =>
       \A k \in DOMAIN tournament[1].bracket[1] :
          LET bracket == tournament[1].bracket[1]
              m == bracket[k]
          IN (/\ m.status = "ready" /\ m.matchType = "regular"
              /\ m.round < maxRound(bracket))
             => \A res \in BracketResults(k) :
                   LET after == updateBracketMatch(tournament[1], k,
                                   res.winner[1].id, res.score).bracket[1]
                       n == CHOOSE j \in DOMAIN bracket :
                               /\ bracket[j].round = m.round + 1
                               /\ bracket[j].position = m.position \div 2
                               /\ bracket[j].matchType = "regular"
                   IN /\ after[k].status = "completed"
                      /\ after[k].score = Some(res.score)
                      /\ after[k].winnerId = slotId(res.winner)
                      /\ IF m.position % 2 = 0
                         THEN /\ after[n].player1 = res.winner
                              /\ after[n].player2 = bracket[n].player2
                         ELSE /\ after[n].player2 = res.winner
                              /\ after[n].player1 = bracket[n].player1
                      /\ (after[n].status = "ready") <=> BothSlotsFilled(after[n])

\* A result has been recorded for a regular match below the final, and its
\* winner waits in the next match for an opponent.
C17_WinnerWaits ==
    /\ tournament # Null /\ tournament[1].bracket # Null
    /\ \E k, n \in DOMAIN tournament[1].bracket[1] :
          LET bracket == tournament[1].bracket[1]
          IN /\ bracket[k].status = "completed"
             /\ bracket[k].matchType = "regular"
             /\ bracket[n].matchType = "regular"
             /\ bracket[n].round = bracket[k].round + 1
             /\ bracket[n].position = bracket[k].position \div 2
             /\ bracket[n].status = "pending"
             /\ bracket[k].winnerId \in {slotId(bracket[n].player1),
                                         slotId(bracket[n].player2)}

\* ---------------------------------------------------------------- C18
\* The semifinals of the stored bracket: its regular matches of round
\* totalRounds - 1.
Semifinals ==
    LET bracket == tournament[1].bracket[1]
    IN {k \in DOMAIN bracket :
           /\ bracket[k].matchType = "regular"
           /\ bracket[k].round = maxRound(bracket) - 1}

\* C18: in a tournament with a bronze match, once both semifinals are
\* resolved (completed or decided by walkover), both slots of the bronze
\* match are filled and the bronze match is ready to be played or has been
\* played.
C18_BronzeFedBySemifinalLosers ==
    (/\ tournament # Null /\ tournament[1].bracket # Null
     /\ tournament[1].bronzeMatchEnabled
     /\ \A k \in Semifinals :
           tournament[1].bracket[1][k].status \in {"completed", "walkover"})
    => \E b \in DOMAIN tournament[1].bracket[1] :
          LET m == tournament[1].bracket[1][b]
          IN /\ isBronze(m)
             /\ BothSlotsFilled(m)
             /\ m.status \in {"ready", "completed"}

\* ---------------------------------------------------------------- C19
\* The final and the bronze match of the stored bracket (index 0: none).
TheFinal ==
    finalOf(tournament[1].bracket[1], maxRound(tournament[1].bracket[1]))

TheBronze ==
    LET bracket == tournament[1].bracket[1]
    IN findMatch({idx \in DOMAIN bracket : isBronze(bracket[idx])})

\* The matches that decide the places are completed: the final, and the
\* bronze match where one is played.
PlacesDecided ==
    LET bracket == tournament[1].bracket[1]
    IN /\ bracket[TheFinal].status = "completed"
       /\ tournament[1].bronzeMatchEnabled
             => bracket[TheBronze].status = "completed"

\* C19: the tournament status is completed exactly when the final (and the
\* bronze match, if enabled) is completed, whichever of the two was recorded
\* last; then winnerId is the final's winner, secondPlaceId the final's
\* other player and thirdPlaceId the bronze match's winner.
C19_CompletedWithPlaces ==
    (tournament # Null /\ tournament[1].bracket # Null) =>
       LET t == tournament[1]
           final == t.bracket[1][TheFinal]
       IN /\ (t.status = "completed") <=> PlacesDecided
          /\ t.status = "completed" =>
                /\ t.winnerId = final.winnerId
                /\ t.winnerId \in {slotId(final.player1), slotId(final.player2)}
                /\ t.secondPlaceId
                      \in {slotId(final.player1), slotId(final.player2)} \ {t.winnerId}
                /\ t.bronzeMatchEnabled
                      => /\ t.thirdPlaceId # Null
                         /\ t.thirdPlaceId = t.bracket[1][TheBronze].winnerId
          /\ t.status # "completed" =>
                t.winnerId = Null /\ t.secondPlaceId = Null /\ t.thirdPlaceId = Null

\* A tournament with a bronze match is completed and its three places are
\* set.
C19_CompletedWithBronze ==
    /\ tournament # Null
    /\ tournament[1].status = "completed"
    /\ tournament[1].bronzeMatchEnabled
    /\ tournament[1].thirdPlaceId # Null

\* ---------------------------------------------------------------- C20
\* The ids of the players of a stored group.
groupIds(group) ==
    {group.players[k].id : k \in DOMAIN group.players}

\* The groups stored by createTournament for the players of the setup, in
\* their rating order, are the snake draft of those players.
SnakeDrafted(setup, groups) ==
    LET sorted == sortByElo(selectedPlayers(setup.count, setup.rating))
        G == setup.groupCount
        snake(i) == IF (i \div G) % 2 = 0 THEN i % G ELSE G - 1 - (i % G)
    IN /\ Len(groups) = G
       /\ \A i \in 0..(Len(sorted) - 1) :
             \A g \in 0..(G - 1) :
                (sorted[i + 1].id \in groupIds(groups[g + 1])) <=> (g = snake(i))
       /\ \A g \in 1..G :
             /\ Cardinality(groupIds(groups[g])) = Len(groups[g].players)
             /\ groupIds(groups[g]) \subseteq 1..setup.count
       /\ \A g, h \in 1..G :
             Len(groups[g].players) - Len(groups[h].players) \in {-1, 0, 1}

\* C20: when createTournament stores a round robin tournament, the player at
\* rating-sorted index i is in group i mod G if floor(i/G) is even and in
\* group G-1-(i mod G) if it is odd; every selected player is in exactly one
\* group, once, and the group sizes differ by at most one.
C20_SnakeDraft ==
    [][(/\ creation # Null /\ creation[1].setup.format = "round_robin"
        /\ tournament' # Null)
       => /\ tournament'[1].groups # Null
          /\ SnakeDrafted(creation[1].setup, tournament'[1].groups[1])]_vars

\* Five players were drafted into two groups: the third to fifth went in
\* the reverse and then again the forward direction, three players to the
\* first group and two to the second.
C20_FiveInTwoGroups ==
    /\ tournament # Null
    /\ tournament[1].groups # Null
    /\ tournament[1].playerCount = 5
    /\ Len(tournament[1].groups[1]) = 2
    /\ Len(tournament[1].groups[1][1].players) = 3
    /\ Len(tournament[1].groups[1][2].players) = 2

\* ---------------------------------------------------------------- C21
\* The stored groups, before and after a step.
Groups == tournament[1].groups[1]

GroupsAfter == tournament'[1].groups[1]

\* The step records the result of match k of group g.
GroupResultRecorded(g, k) ==
    /\ tournament # Null /\ tournament[1].groups # Null
    /\ tournament' # Null /\ tournament'[1].groups # Null
    /\ Groups[g].matches[k].status = "ready"
    /\ GroupsAfter[g].matches[k].status = "completed"

\* What the result of match m (as stored after the step) adds to the
\* standing of player id.
StandingGain(m, id) ==
    LET first == id = m.player1Id
        second == id = m.player2Id
        winner == m.winnerId = Some(id)
    IN IF ~(first \/ second)
       THEN [played |-> 0, won |-> 0, lost |-> 0, legsFor |-> 0,
             legsAgainst |-> 0, points |-> 0]
       ELSE [played |-> 1,
             won |-> IF winner THEN 1 ELSE 0,
             lost |-> IF winner THEN 0 ELSE 1,
             legsFor |-> IF first THEN m.score[1][1] ELSE m.score[1][2],
             legsAgainst |-> IF first THEN m.score[1][2] ELSE m.score[1][1],
             points |-> IF winner THEN 2 ELSE 0]

StandingsGainOf(g, k) ==
    LET m == GroupsAfter[g].matches[k]
    IN /\ m.winnerId \in {Some(m.player1Id), Some(m.player2Id)}
       /\ \A h \in DOMAIN Groups :
             /\ DOMAIN GroupsAfter[h].players = DOMAIN Groups[h].players
             /\ \A j \in DOMAIN Groups[h].players :
                   LET before == Groups[h].players[j]
                       after == GroupsAfter[h].players[j]
                       gain == IF h = g THEN StandingGain(m, before.id)
                               ELSE StandingGain(m, 0)
                   IN /\ after.id = before.id
                      /\ after.played = before.played + gain.played
                      /\ after.won = before.won + gain.won
                      /\ after.lost = before.lost + gain.lost
                      /\ after.legsFor = before.legsFor + gain.legsFor
                      /\ after.legsAgainst = before.legsAgainst + gain.legsAgainst
                      /\ after.points = before.points + gain.points

StandingsConsistent ==
    (tournament # Null /\ tournament[1].groups # Null) =>
       \A g \in DOMAIN Groups :
          \A j \in DOMAIN Groups[g].players :
             LET p == Groups[g].players[j]
             IN p.played = p.won + p.lost /\ p.points = 2 * p.won

\* C21: recording a group match result adds one played to both of its
\* players, one won and 2 points to the winner, one lost and no points to
\* the loser, each player's own legs to legsFor and the opponent's to
\* legsAgainst, and leaves every other standing unchanged; in every state
\* each group player has played = won + lost and points = 2 * won.
C21_GroupResultUpdatesStandings ==
    /\ [][\A g \in 1..4 : \A k \in 1..6 :
            (/\ tournament # Null /\ tournament[1].groups # Null
             /\ g \in DOMAIN Groups /\ k \in DOMAIN Groups[g].matches
             /\ GroupResultRecorded(g, k))
            => StandingsGainOf(g, k)]_vars
    /\ []StandingsConsistent

\* A group player has won a match and lost another, conceding legs in both.
C21_WonOneLostOne ==
    /\ tournament # Null /\ tournament[1].groups # Null
    /\ \E g \in DOMAIN Groups : \E j \in DOMAIN Groups[g].players :
          LET p == Groups[g].players[j]
          IN p.won = 1 /\ p.lost = 1 /\ p.legsAgainst = 3 /\ p.legsFor = 3

\* ---------------------------------------------------------------- C22
\* The sum of field over the first n standings of players.
RECURSIVE sumOver(_, _, _)
sumOver(players, field, n) ==
    IF n = 0 THEN 0
    ELSE players[n][field] + sumOver(players, field, n - 1)

GroupCompleted(group) ==
    /\ group.matches # <<>>
    /\ \A k \in DOMAIN group.matches : group.matches[k].status = "completed"

\* C22: within one group the sum of legsFor over the group's players equals
\* the sum of legsAgainst, after every recorded result and so after the
\* group's fixtures are completed.
C22_GroupLegsBalance ==
    (tournament # Null /\ tournament[1].groups # Null) =>
       \A g \in DOMAIN Groups :
          LET players == Groups[g].players
          IN sumOver(players, "legsFor", Len(players))
                = sumOver(players, "legsAgainst", Len(players))

\* The three fixtures of a group of three are completed and the losers took
\* legs: eight legs were played in the group.
C22_GroupOfThreeCompleted ==
    /\ tournament # Null /\ tournament[1].groups # Null
    /\ \E g \in DOMAIN Groups :
          /\ Len(Groups[g].players) = 3
          /\ GroupCompleted(Groups[g])
          /\ sumOver(Groups[g].players, "legsFor", 3) = 8

\* ---------------------------------------------------------------- C23
\* Standing a ranks strictly ahead of standing b: more points, or the same
\* points and a greater leg differential.
Ahead(a, b) ==
    \/ a.points > b.points
    \/ /\ a.points = b.points
       /\ a.legsFor - a.legsAgainst > b.legsFor - b.legsAgainst

\* The ids that can hold the given rank (1 or 2) of a group: every rank
\* order consistent with Ahead is allowed where standings are level.
RankedIds(group, rank) ==
    LET standings == {group.players[j] : j \in DOMAIN group.players}
    IN {p.id : p \in {q \in standings :
                        Cardinality({o \in standings : Ahead(o, q)}) < rank
                        /\ Cardinality({o \in standings : ~Ahead(q, o)}) >= rank}}

AllGroupMatchesCompleted(groups) ==
    \A g \in DOMAIN groups : \A k \in DOMAIN groups[g].matches :
       groups[g].matches[k].status = "completed"

\* The step records the last group match.
LastGroupMatchRecorded ==
    /\ tournament # Null /\ tournament[1].groups # Null
    /\ tournament' # Null /\ tournament'[1].groups # Null
    /\ ~AllGroupMatchesCompleted(Groups)
    /\ AllGroupMatchesCompleted(GroupsAfter)

SemifinalAfter(position) ==
    LET bracket == tournament'[1].bracket[1]
    IN bracket[CHOOSE k \in DOMAIN bracket :
                  /\ bracket[k].round = 1 /\ bracket[k].position = position
                  /\ bracket[k].matchType = "regular"]

SemifinalsPopulated ==
    LET sf1 == SemifinalAfter(0)
        sf2 == SemifinalAfter(1)
        G == Len(GroupsAfter)
    IN /\ sf1.status = "ready" /\ sf2.status = "ready"
       /\ BothSlotsFilled(sf1) /\ BothSlotsFilled(sf2)
       /\ G = 2 =>
             /\ sf1.player1[1].id \in RankedIds(GroupsAfter[1], 1)
             /\ sf1.player2[1].id \in RankedIds(GroupsAfter[2], 2)
             /\ sf2.player1[1].id \in RankedIds(GroupsAfter[2], 1)
             /\ sf2.player2[1].id \in RankedIds(GroupsAfter[1], 2)
             /\ sf1.player1[1].id # sf2.player2[1].id
             /\ sf2.player1[1].id # sf1.player2[1].id
       /\ G = 4 =>
             /\ sf1.player1[1].id \in RankedIds(GroupsAfter[1], 1)
             /\ sf1.player2[1].id \in RankedIds(GroupsAfter[2], 1)
             /\ sf2.player1[1].id \in RankedIds(GroupsAfter[3], 1)
             /\ sf2.player2[1].id \in RankedIds(GroupsAfter[4], 1)

\* C23: when the last group match is recorded, the semifinals are filled
\* from the group standings ranked by points and then leg differential: with
\* 2 groups semifinal 1 is A-rank1 against B-rank2 and semifinal 2 B-rank1
\* against A-rank2; with 4 groups semifinal 1 is A1 against B1 and semifinal
\* 2 C1 against D1; both semifinals become ready.
C23_SemifinalsFromStandings ==
    [][LastGroupMatchRecorded => SemifinalsPopulated]_vars

\* Two groups have been played out, the first with three players whose
\* standings all differ, and the semifinals are filled.
C23_TwoGroupsPlayedOut ==
    /\ tournament # Null /\ tournament[1].groups # Null
    /\ Len(Groups) = 2
    /\ Len(Groups[1].players) = 3
    /\ AllGroupMatchesCompleted(Groups)
    /\ Cardinality(RankedIds(Groups[1], 1)) = 1
    /\ Cardinality(RankedIds(Groups[1], 2)) = 1
    /\ matchAt(1, 0).status = "ready"
    /\ matchAt(1, 1).status = "ready"

\* ---------------------------------------------------------------- C24
\* Every slot of the stored knockout bracket is empty.
BracketEmpty ==
    \A k \in DOMAIN tournament[1].bracket[1] :
       LET m == tournament[1].bracket[1][k]
       IN m.player1 = Null /\ m.player2 = Null /\ m.winnerId = Null

\* C24: a round robin tournament is in status group_stage with every slot
\* of its knockout bracket empty exactly as long as some group match is not
\* completed; once every group match of every group is completed, the
\* semifinals are populated and the tournament has left the group stage.
C24_GroupStageWhileMatchesOpen ==
    (tournament # Null /\ tournament[1].format = "round_robin") =>
       /\ ~AllGroupMatchesCompleted(Groups)
             <=> (tournament[1].status = "group_stage" /\ BracketEmpty)
       /\ AllGroupMatchesCompleted(Groups)
             => /\ tournament[1].status \in {"knockout", "completed"}
                /\ BothSlotsFilled(matchAt(1, 0))
                /\ BothSlotsFilled(matchAt(1, 1))

\* ---------------------------------------------------------------- C25
\* The double-attempts prompt is open for a visit that is no bust: a
\* continuation or a checkout of the player to throw.
PromptForVisit ==
    /\ game # Null
    /\ pendingDoubleAttempts # Null
    /\ pendingDoubleAttempts[1].score >= 0
    /\ LET left == pendingDoubleAttempts[1].previousRemaining
                      - pendingDoubleAttempts[1].score
       IN left = 0 \/ left > 1

\* C25: in round-total entry, when the prompt is open for a non-bust visit
\* of a player in double-out range, answering it with n darts applies the
\* visit: the player's remaining decreases by the visit, a leg win is
\* proposed if it reaches zero, and doubleAttempts increases by n.
C25_PromptAnswerAppliesVisit ==
    [][(PromptForVisit /\ pendingDoubleAttempts' = Null) =>
         LET pda == pendingDoubleAttempts[1]
             before == game.players[pda.playerIndex]
             after == game'.players[pda.playerIndex]
         IN /\ after.remaining = before.remaining - pda.score
            /\ after.doubleAttempts - before.doubleAttempts \in DartsAtDouble
            /\ after.remaining = 0 => game'.pendingLegWin # Null]_vars

\* ---------------------------------------------------------------- C26
\* The visits of the current leg that count for the first nine darts.
FirstVisits(p) ==
    SubSeq(p.throws, 1, IF Len(p.throws) < 3 THEN Len(p.throws) ELSE 3)

\* C26: in every match state each player's per-leg first-9 visit count is
\* min(3, number of visits recorded for the player in the current leg) and
\* the per-leg first-9 total is the sum of those first visits, also after an
\* undo or an edit of a visit.
C26_First9MatchesVisits ==
    game # Null =>
       \A i \in DOMAIN game.players :
          LET p == game.players[i]
          IN /\ p.legFirst9Visits = Len(FirstVisits(p))
             /\ p.legFirst9Total = SumSeq(FirstVisits(p))

\* ---------------------------------------------------------------- C27
\* The legs won by all players of the match.
LegsWonInAll ==
    SumSeq([k \in 1..playerCount(game) |-> game.players[k - 1].legsWon])

\* C27: before the match is won the legs won by all players add up to
\* currentLeg - 1; no player's legsWon exceeds legsToWin and at most one
\* player reaches legsToWin.
C27_LegsWonCountLegs ==
    game # Null =>
       /\ ~game.gameOver => LegsWonInAll = game.currentLeg - 1
       /\ \A i \in DOMAIN game.players :
             game.players[i].legsWon <= game.legsToWin
       /\ Cardinality({i \in DOMAIN game.players :
                          game.players[i].legsWon = game.legsToWin}) <= 1

\* The second leg is being played after one player won the first.
C27_SecondLegAfterLegWin ==
    /\ game # Null
    /\ ~game.gameOver
    /\ game.currentLeg = 2
    /\ \E i \in DOMAIN game.players :
          game.players[i].legsWon = 1 /\ game.players[i].throws # <<>>

\* ---------------------------------------------------------------- C28
\* C28: in every match state no player's remaining is negative and no
\* player's remaining is exactly 1, whatever visits, busts, undos and edits
\* of visits were applied.
C28_RemainingNeverStranded ==
    game # Null =>
       \A i \in DOMAIN game.players :
          game.players[i].remaining >= 0 /\ game.players[i].remaining # 1

\* ---------------------------------------------------------------- C29
\* The stored tournament holds the result of the call and, for a bracket
\* match with a next round, the winner's advancement.
ResultStored(call) ==
    IF call.kind = "bracket"
    THEN LET bracket == tournament[1].bracket[1]
             m == bracket[call.matchIndex]
             n == nextRegular(bracket, m)
         IN /\ m.status = "completed"
            /\ m.winnerId = Some(call.winnerId)
            /\ n # 0 => Some(call.winnerId) \in {slotId(bracket[n].player1),
                                                 slotId(bracket[n].player2)}
    ELSE LET m == Groups[call.groupIndex].matches[call.matchIndex]
         IN m.status = "completed" /\ m.winnerId = Some(call.winnerId)

\* C29: when result updates for different matches of one tournament are
\* issued by callers side by side, so that one fetches before the other
\* has written, the stored tournament holds every result and advancement
\* once all of them have written.
C29_ConcurrentUpdatesKept ==
    (tournament # Null /\ \A i \in DOMAIN calls : calls[i].written)
       => \A i \in DOMAIN calls : ResultStored(calls[i])

\* ---------------------------------------------------------------- C30
\* The round-1 slots of the stored bracket that hold player id, as
\* <<match index, slot>>.
RoundOneSlotsOf(id) ==
    LET bracket == tournament[1].bracket[1]
    IN {ms \in (DOMAIN bracket) \X {1, 2} :
          /\ bracket[ms[1]].round = 1
          /\ bracket[ms[1]].matchType = "regular"
          /\ slotId(IF ms[2] = 1 THEN bracket[ms[1]].player1
                    ELSE bracket[ms[1]].player2) = Some(id)}

\* C30: in every cup the setup accepts (3 or more selected players, bracket
\* size 4 for up to 4 players, 8 for up to 8, otherwise 16) every selected
\* player occupies exactly one round-1 slot of the generated bracket.
C30_EveryPlayerSeeded ==
    (tournament # Null /\ tournament[1].format = "cup") =>
       \A id \in 1..tournament[1].playerCount :
          Cardinality(RoundOneSlotsOf(id)) = 1

====
